---- MODULE Spec2Model ----
(***************************************************************************)
(* A model of the EDF resolution pipeline of sarus-suite/raster:           *)
(*   - RawEDF::extend, the merge of two raw documents (src/lib.rs)         *)
(*   - render_inner_loop, the recursive base_environment resolver          *)
(*   - edf_from_raw, the finalizer                                         *)
(*   - expand_vars_string and its two modes (src/common.rs)                *)
(*   - SarusMount::try_new and sarus_mounts_from_strings (src/mount.rs)    *)
(* Strings are sequences of one-character strings, so that prefixes,       *)
(* splitting and variable expansion are computed and not assumed.          *)
(***************************************************************************)
EXTENDS Integers, Sequences, FiniteSets, TLC

VARIABLES
    files,      \* the file system: path -> file content (regular files)
    cwd,        \* the working directory, an Option (None: it cannot be read)
    penv,       \* the process environment (Mode A of the expander)
    uenv,       \* the explicit environment, an Option (None selects Mode A)
    sp,         \* the search path list
    root,       \* the name passed to render
    stack,      \* active render_inner_loop calls, root first
    result,     \* outcome of render: Pending, Ok(EDF), Err(..) or Panic
    hist,       \* observations of the run, for the properties only
    mself,      \* extend: the receiver (self)
    mother,     \* extend: the argument (other)
    mout,       \* extend: self after the call
    mpc,        \* extend: "idle", "ready" or "done"
    bash,       \* whether Command::new("bash") can be spawned: "present" or "absent"
    xin,        \* a single call of the expander or the mount compiler: its arguments
    xout,       \* the single call: what it returned
    xpc,        \* the single call: "idle", "ready" or "done"
    prev        \* the single call made before this one, with what it returned

vars ==
    <<files, cwd, penv, uenv, sp, root, stack, result, hist, mself, mother, mout, mpc, bash, xin, xout, xpc, prev>>

(***************************************************************************)
(* Option and Result                                                       *)
(***************************************************************************)
None == <<>>
Some(x) == <<x>>
IsSome(o) == Len(o) = 1
IsNone(o) == Len(o) = 0
Unwrap(o) == o[1]

Ok(v) == [ok |-> TRUE, v |-> v]
Err(c, fp, m) == [ok |-> FALSE, code |-> c, file_path |-> fp, msg |-> m]

(***************************************************************************)
(* Sequence helpers                                                        *)
(***************************************************************************)
Range(s) == {s[i] : i \in 1..Len(s)}
Drop(s, n) == SubSeq(s, n + 1, Len(s))
Take(s, n) == SubSeq(s, 1, n)
StartsWith(s, p) == Len(s) >= Len(p) /\ Take(s, Len(p)) = p
EndsWith(s, p) == Len(s) >= Len(p) /\ Drop(s, Len(s) - Len(p)) = p

\* first index i >= from with SubSeq(s, i, i+Len(p)-1) = p, or 0
RECURSIVE Find(_, _, _)
Find(s, p, from) ==
    IF from + Len(p) - 1 > Len(s) THEN 0
    ELSE IF SubSeq(s, from, from + Len(p) - 1) = p THEN from
    ELSE Find(s, p, from + 1)

NoDup(s) == \A i, j \in 1..Len(s) : s[i] = s[j] => i = j

\* all orderings without repetition of the finite set S
Perms(S) == {p \in [1..Cardinality(S) -> S] : \A i, j \in 1..Cardinality(S) : p[i] = p[j] => i = j}

(***************************************************************************)
(* Strings: a string is a sequence of characters, a character a string of  *)
(* length one.  The named strings below are the ones the documents of the  *)
(* model are built from.                                                   *)
(***************************************************************************)
\* the backquote character (the tool's strings cannot hold it literally)
Backquote == "backquote"

NameChars ==
    {"A","B","C","D","E","F","G","H","I","J","K","L","M","N","O","P","Q","R","S","T","U","V","W","X","Y","Z",
     "a","b","c","d","e","f","g","h","i","j","k","l","m","n","o","p","q","r","s","t","u","v","w","x","y","z",
     "0","1","2","3","4","5","6","7","8","9","_"}

\* concatenation onto an optional tail (None propagates)
Cat(prefix, optRest) == IF IsSome(optRest) THEN Some(prefix \o Unwrap(optRest)) ELSE None

\* a map merge in which the receiver's value survives a collision
MapExtend_KeepOld(a, b) == [k \in (DOMAIN a) \cup (DOMAIN b) |-> IF k \in DOMAIN a THEN a[k] ELSE b[k]]

\* a map is a function from keys to values; HashMap::extend / insert
MapExtend(a, b) == [k \in (DOMAIN a) \cup (DOMAIN b) |-> IF k \in DOMAIN b THEN b[k] ELSE a[k]]
EmptyMap == [k \in {} |-> <<>>]
MapGet(m, k) == IF k \in DOMAIN m THEN Some(m[k]) ELSE None

(***************************************************************************)
(* Mode A: shellexpand::env over the process environment                   *)
(* (expand_vars_string_without_env).  $NAME, ${NAME}, ${NAME:-default};    *)
(* "$$" yields "$"; a "$" before anything else is kept; an unset variable  *)
(* without default is a lookup error.                                      *)
(***************************************************************************)
RECURSIVE NameEnd(_, _)
NameEnd(s, i) == IF i <= Len(s) /\ s[i] \in NameChars THEN NameEnd(s, i + 1) ELSE i

RECURSIVE ShellExpandEnv(_, _)
ShellExpandEnv(s, env) ==
    IF s = <<>> THEN Some(<<>>)
    ELSE IF s[1] /= "$" THEN Cat(<<s[1]>>, ShellExpandEnv(Tail(s), env))
    ELSE IF Len(s) >= 2 /\ s[2] = "{" THEN
        LET cb == Find(s, <<"}">>, 1) IN
        IF cb = 0 THEN Cat(<<"$", "{">>, ShellExpandEnv(Drop(s, 2), env))
        ELSE
            LET ds == Find(Take(s, cb - 1), <<":", "-">>, 1)
                hasDef == ds /= 0 /\ ds /= 3
                nend == IF hasDef THEN ds ELSE cb
                v == MapGet(env, SubSeq(s, 3, nend - 1))
                rest == ShellExpandEnv(Drop(s, cb), env)
            IN  IF IsSome(v) THEN Cat(Unwrap(v), rest)
                ELSE IF hasDef THEN Cat(SubSeq(s, ds + 2, cb - 1), rest)
                ELSE None
    ELSE IF Len(s) >= 2 /\ s[2] \in NameChars THEN
        LET e == NameEnd(s, 2)
            v == MapGet(env, SubSeq(s, 2, e - 1))
        IN  IF IsSome(v) THEN Cat(Unwrap(v), ShellExpandEnv(Drop(s, e - 1), env)) ELSE None
    ELSE IF Len(s) >= 2 /\ s[2] = "$" THEN Cat(<<"$">>, ShellExpandEnv(Drop(s, 2), env))
    ELSE Cat(<<"$">>, ShellExpandEnv(Tail(s), env))

expand_vars_string_without_env(s, env) ==
    LET r == ShellExpandEnv(s, env) IN
    IF IsSome(r) THEN Ok(Unwrap(r)) ELSE Err(17, None, <<>>)

(***************************************************************************)
(* Mode B: the denylist scan, then bash -r -c 'set -u; echo -n "<input>"'  *)
(* with the environment replaced by the explicit map.                      *)
(***************************************************************************)
\* a scan that has no "start of the text" alternative
re_banned_NoAnchor(s) ==
    \E p \in 2..Len(s) :
        /\ s[p - 1] /= "\\"
        /\ \/ s[p] \in {Backquote, ";", "\""}
           \/ s[p] = "$" /\ p < Len(s) /\ s[p + 1] = "("

\* Regex ([^\\]|^)(\$\(|backquote|;|") has a match in s
re_banned_is_match(s) ==
    \E p \in 1..Len(s) :
        /\ p = 1 \/ s[p - 1] /= "\\"
        /\ \/ s[p] \in {Backquote, ";", "\""}
           \/ s[p] = "$" /\ p < Len(s) /\ s[p + 1] = "("

\* what "$$" expands to: the shell's process id, as one character
ProcessId == "pid"

\* The shell's reading of the text between the template's double quotes.
\* status "ok": the text was data and out was echoed; "unset": set -u
\* stopped the shell before echo ran; "syntax": the closing quote was
\* swallowed; "injected": the text left the quoted string or started a
\* command substitution, out being what was read as data before that.
\* (The names the shell sets by itself, PWD or PPID say, are none of the
\* names the texts below refer to.)

RECURSIVE BashDoubleQuoted(_, _)
BashDoubleQuoted(s, env) ==
    LET Then(prefix, r) == IF r.status = "ok" THEN [r EXCEPT !.out = prefix \o @] ELSE r IN
    IF s = <<>> THEN [status |-> "ok", out |-> <<>>]
    ELSE IF s[1] = "\\" THEN
        IF Len(s) = 1 THEN [status |-> "syntax", out |-> <<>>]
        ELSE IF s[2] \in {"$", Backquote, "\"", "\\"} THEN Then(<<s[2]>>, BashDoubleQuoted(Drop(s, 2), env))
        ELSE Then(<<"\\">>, BashDoubleQuoted(Tail(s), env))
    ELSE IF s[1] \in {"\"", Backquote} THEN [status |-> "injected", out |-> <<>>]
    ELSE IF s[1] = "$" THEN
        IF Len(s) >= 2 /\ s[2] = "(" THEN [status |-> "injected", out |-> <<>>]
        ELSE IF Len(s) >= 2 /\ s[2] = "{" THEN
            LET cb == Find(s, <<"}">>, 1) IN
            IF cb = 0 THEN [status |-> "syntax", out |-> <<>>]
            ELSE
                LET ds == Find(Take(s, cb - 1), <<":", "-">>, 1)
                    hasDef == ds /= 0
                    nend == IF hasDef THEN ds ELSE cb
                    v == MapGet(env, SubSeq(s, 3, nend - 1))
                    rest == BashDoubleQuoted(Drop(s, cb), env)
                IN  IF IsSome(v) /\ (~hasDef \/ Unwrap(v) /= <<>>) THEN Then(Unwrap(v), rest)
                    ELSE IF hasDef THEN
                        LET d == BashDoubleQuoted(SubSeq(s, ds + 2, cb - 1), env) IN
                        IF d.status = "ok" THEN Then(d.out, rest) ELSE d
                    ELSE [status |-> "unset", out |-> <<>>]
        ELSE IF Len(s) >= 2 /\ s[2] \in NameChars THEN
            LET e == NameEnd(s, 2)
                v == MapGet(env, SubSeq(s, 2, e - 1))
            IN  IF IsSome(v) THEN Then(Unwrap(v), BashDoubleQuoted(Drop(s, e - 1), env))
                ELSE [status |-> "unset", out |-> <<>>]
        ELSE IF Len(s) >= 2 /\ s[2] = "$" THEN Then(<<ProcessId>>, BashDoubleQuoted(Drop(s, 2), env))
        ELSE Then(<<"$">>, BashDoubleQuoted(Tail(s), env))
    ELSE Then(<<s[1]>>, BashDoubleQuoted(Tail(s), env))

\* the messages of the two errors with code 18
InvalidString == <<"invalid string">>
SpawnError == <<"spawn error">>

\* the scan; the spawn of bash, which may fail; then stdout as a string.
\* Command::output() succeeds whatever the shell's exit status, and only
\* stdout is read: of a shell that stopped before echo ran it is empty.
\* (Of a text that started a command, out is the data read before it; the
\* single call below chooses among the outcomes such a text can have.)
expand_vars_string_with_env(s, env) ==
    IF re_banned_is_match(s) THEN Err(18, None, InvalidString)
    ELSE IF bash = "absent" THEN Err(18, None, SpawnError)
    ELSE Ok(BashDoubleQuoted(s, env).out)

\* env: an Option of a map; pe: the process environment
expand_vars_string(s, env, pe) ==
    IF IsSome(env) THEN expand_vars_string_with_env(s, Unwrap(env))
    ELSE expand_vars_string_without_env(s, pe)

\* expand_vars_vec: every element in order, the first error is returned
RECURSIVE expand_vars_vec(_, _, _)
expand_vars_vec(v, env, pe) ==
    IF v = <<>> THEN Ok(<<>>)
    ELSE LET h == expand_vars_string(Head(v), env, pe) IN
         IF ~h.ok THEN h
         ELSE LET t == expand_vars_vec(Tail(v), env, pe) IN
              IF ~t.ok THEN t ELSE Ok(<<h.v>> \o t.v)

\* expand_vars_hashmap: every value, keys untouched; an error on any value
expand_vars_hashmap(h, env, pe) ==
    LET bad == {k \in DOMAIN h : ~expand_vars_string(h[k], env, pe).ok} IN
    IF bad /= {} THEN expand_vars_string(h[CHOOSE k \in bad : TRUE], env, pe)
    ELSE Ok([k \in DOMAIN h |-> expand_vars_string(h[k], env, pe).v])

(***************************************************************************)
(* RawEDF, BaseEnvironment, Annotations (src/lib.rs)                       *)
(***************************************************************************)
\* the fields of RawEDF that hold one value: bool and string scalars
BoolFields == {"entrypoint", "parallax_enable", "perfmon", "writable"}
StringFields == {"engine", "image", "parallax_imagestore", "parallax_path",
                 "parallax_mount_program", "podman_module", "podman_path",
                 "podman_tmp_path", "workdir"}
ScalarFields == BoolFields \cup StringFields
MapFields == {"env", "annotations"}
ListFields == {"devices", "mounts"}
RawFields == ScalarFields \cup MapFields \cup ListFields \cup {"base_environment"}

\* RawEDF::default(): every field None
RawEDF_default == [f \in RawFields |-> None]

TypeString(s) == [type |-> "TypeString", names |-> <<s>>]
TypeVec(a) == [type |-> "TypeVec", names |-> a]
TypeMap(m) == [type |-> "TypeMap", m |-> m]
TypeHashMap(h) == [type |-> "TypeHashMap", m |-> h]

\* toml::Value: a string, a boolean or a table
VStr(s) == [kind |-> "str", s |-> s, t |-> EmptyMap]
VBool(b) == [kind |-> "bool", s |-> IF b THEN <<"t","r","u","e">> ELSE <<"f","a","l","s","e">>, t |-> EmptyMap]
VTable(t) == [kind |-> "table", s |-> <<>>, t |-> t]

\* map2hashmap: nested tables are flattened to "k.jk"; other values are
\* rendered as strings.  A toml Map iterates in key order, so when two
\* entries produce the same key the one under the longer top-level key is
\* inserted last and stays.
RECURSIVE map2hashmap(_)
map2hashmap(m) ==
    LET Sub(k) == map2hashmap(m[k].t)
        Entries(k) ==
            IF m[k].kind = "table"
            THEN {<<k \o <<".">> \o jk, Sub(k)[jk], Len(k)>> : jk \in DOMAIN Sub(k)}
            ELSE {<<k, m[k].s, Len(k)>>}
        all == UNION {Entries(k) : k \in DOMAIN m}
    IN  [key \in {e[1] : e \in all} |->
            (CHOOSE e \in all : e[1] = key /\ \A f \in all : f[1] = key => f[3] <= e[3])[2]]

annotations_as_hashmap(a) == IF a.type = "TypeHashMap" THEN a.m ELSE map2hashmap(a.m)

\* a list merge in which the argument replaces the receiver's list
ExtendList_Replace(selfv, iv) == IF IsSome(iv) THEN iv ELSE selfv

\* Vec::extend of an optional list by an optional list, as extend() does it
ExtendList(selfv, iv) ==
    IF IsSome(iv)
    THEN (IF IsSome(selfv) THEN Some(Unwrap(selfv) \o Unwrap(iv)) ELSE iv)
    ELSE selfv

\* the env table: HashMap::extend when both are present
ExtendEnv(selfv, iv) ==
    IF IsSome(iv)
    THEN (IF IsSome(selfv) THEN Some(MapExtend(Unwrap(selfv), Unwrap(iv))) ELSE iv)
    ELSE selfv

\* annotations: both sides are flattened, the result is a TypeHashMap
ExtendAnnotations(selfv, iv) ==
    IF IsSome(iv)
    THEN Some(TypeHashMap(MapExtend(
            IF IsSome(selfv) THEN annotations_as_hashmap(Unwrap(selfv)) ELSE EmptyMap,
            annotations_as_hashmap(Unwrap(iv)))))
    ELSE selfv

\* "if i.f.is_some() { self.f = i.f }"
Overwrite(selfv, iv) == IF IsSome(iv) THEN iv ELSE selfv

\* the scalar fields extend() has an "if i.f.is_some()" line for
ExtendedScalars == ScalarFields \ {"engine"}

\* RawEDF::extend(&mut self, i): the value of self after the call
extend(self, i) ==
    [f \in RawFields |->
        IF f = "annotations" THEN ExtendAnnotations(self[f], i[f])
        ELSE IF f = "env" THEN ExtendEnv(self[f], i[f])
        ELSE IF f \in ListFields THEN ExtendList(self[f], i[f])
        ELSE IF f \in ExtendedScalars THEN Overwrite(self[f], i[f])
        ELSE self[f]]

(***************************************************************************)
(* Paths and the file system.  files maps a path to what is there:         *)
(*   kind "file" or "dir"; readable (File::open succeeds); toml_ok (the    *)
(*   text is TOML); violations (the schema errors, in order); de_ok (the   *)
(*   TOML deserializes into RawEDF); raw (the RawEDF it deserializes to).  *)
(***************************************************************************)
RECURSIVE Split(_, _)
Split(s, c) ==
    LET i == Find(s, <<c>>, 1) IN
    IF i = 0 THEN <<s>> ELSE <<Take(s, i - 1)>> \o Split(Drop(s, i), c)

RECURSIVE Join(_, _)
Join(parts, sep) ==
    IF parts = <<>> THEN <<>>
    ELSE IF Len(parts) = 1 THEN parts[1]
    ELSE parts[1] \o sep \o Join(Tail(parts), sep)

RECURSIVE LastIndex(_, _, _)
LastIndex(s, c, i) == IF i = 0 THEN 0 ELSE IF s[i] = c THEN i ELSE LastIndex(s, c, i - 1)

\* Path::starts_with compares whole components
PathStartsWithCurDir(s) == Split(s, "/")[1] = <<".">>
PathStartsWithRoot(s) == Len(s) >= 1 /\ s[1] = "/"
PathStartsWithDotOrSlash(s) == PathStartsWithCurDir(s) \/ PathStartsWithRoot(s)

\* the normal components of a path: empty parts and "." parts are skipped
NormalParts(s) == SelectSeq(Split(s, "/"), LAMBDA c : c /= <<>> /\ c /= <<".">>)

\* std::path::absolute of a relative path under the working directory wd
PathAbsolute(s, wd) ==
    IF IsNone(wd) \/ s = <<>> THEN None
    ELSE IF PathStartsWithRoot(s) THEN Some(<<"/">> \o Join(NormalParts(s), <<"/">>))
    ELSE Some(<<"/">> \o Join(NormalParts(Unwrap(wd)) \o NormalParts(s), <<"/">>))

\* Path::file_name: the last component when it is a normal one
FileName(s) ==
    LET parts == NormalParts(s) IN
    IF parts = <<>> THEN None
    ELSE LET l == parts[Len(parts)] IN
         IF l = <<".", ".">> THEN None ELSE Some(l)

\* Path::extension: after the last dot of the file name, unless that dot leads it
Extension(s) ==
    LET fn == FileName(s) IN
    IF IsNone(fn) THEN None
    ELSE LET li == LastIndex(Unwrap(fn), ".", Len(Unwrap(fn))) IN
         IF li <= 1 THEN None ELSE Some(Drop(Unwrap(fn), li))

Exists(fs, path) == path \in DOMAIN fs
\* a test that takes whatever exists for a regular file
IsFile_AnyKind(fs, path) == path \in DOMAIN fs
IsFile(fs, path) == path \in DOMAIN fs /\ fs[path].kind = "file"
CanOpen(fs, path) == path \in DOMAIN fs /\ fs[path].readable

DotToml == <<".", "t", "o", "m", "l">>

(***************************************************************************)
(* SarusMount::try_new and sarus_mounts_from_strings (src/mount.rs)        *)
(***************************************************************************)
\* escape_mount: space, tab, newline and backslash in fstab notation
RECURSIVE escape_mount(_)
escape_mount(path) ==
    IF path = <<>> THEN <<>>
    ELSE (CASE Head(path) = " " -> <<"\\", "0", "4", "0">>
            [] Head(path) = "\t" -> <<"\\", "0", "1", "1">>
            [] Head(path) = "\n" -> <<"\\", "0", "1", "2">>
            [] Head(path) = "\\" -> <<"\\", "\\">>
            [] OTHER -> <<Head(path)>>) \o escape_mount(Tail(path))

SarusMount(s, t, f) == [source |-> s, target |-> t, flags |-> f]

Sqsh == <<"s", "q", "s", "h">>
Tmpfs == <<"t", "m", "p", "f", "s">>
Umount == <<"u", "m", "o", "u", "n", "t">>
BindFlags == <<"x", "-", "c", "r", "e", "a", "t", "e", "=", "a", "u", "t", "o", ",", "r", "b", "i", "n", "d">>
TmpfsFlags == <<"x", "-", "c", "r", "e", "a", "t", "e", "=", "d", "i", "r">>
UmountFlags == <<"x", "-", "d", "e", "t", "a", "c", "h">>

\* the flags of a mount that is not a squashfs image
MountFlags(df, f) == IF f /= <<>> THEN df \o <<",">> \o f ELSE df

try_new(input, wd, fs) ==
    LET a == Split(input, ":")
        asize == Len(a)
    IN
    IF asize < 2 \/ asize > 3 THEN Err(8, None, <<>>)
    ELSE
        LET s0 == a[1]
            t == a[2]
            f == IF asize = 3 THEN a[3] ELSE <<>>
            abs == PathAbsolute(s0, wd)
            \* the source after the sqsh branch made it absolute
            s == IF f = Sqsh /\ PathStartsWithCurDir(s0) /\ IsSome(abs) THEN Unwrap(abs) ELSE s0
            df == IF PathStartsWithDotOrSlash(s0) THEN BindFlags
                  ELSE IF s0 = Tmpfs THEN TmpfsFlags ELSE UmountFlags
        IN
        IF f = Sqsh /\ PathStartsWithCurDir(s0) /\ IsNone(abs) THEN Err(9, None, <<>>)
        ELSE IF f = Sqsh /\ ~PathStartsWithDotOrSlash(s0) THEN Err(10, None, <<>>)
        ELSE IF f /= Sqsh /\ ~PathStartsWithDotOrSlash(s0) /\ s0 /= Tmpfs /\ s0 /= Umount
            THEN Err(12, None, <<>>)
        ELSE IF ~PathStartsWithDotOrSlash(t) THEN Err(13, None, <<>>)
        ELSE IF f = Sqsh THEN
            IF ~Exists(fs, s) THEN Err(14, None, <<>>)
            ELSE IF ~IsFile(fs, s) THEN Err(14, None, <<>>)
            ELSE Ok(SarusMount(escape_mount(s), escape_mount(t), <<>>))
        ELSE Ok(SarusMount(escape_mount(s), escape_mount(t), MountFlags(df, f)))

\* a push that never looks at what is already there
PushUnique_Always(res, m) == Append(res, m)

\* "if !res.contains(&m) { res.push(m) }"
PushUnique(res, m) == IF m \in Range(res) THEN res ELSE Append(res, m)

\* the loop of sarus_mounts_from_strings over input[i..], res being the list so far
RECURSIVE MountsLoop(_, _, _, _, _)
MountsLoop(input, i, res, wd, fs) ==
    IF i > Len(input) THEN Ok(res)
    ELSE LET m == try_new(input[i], wd, fs) IN
         IF ~m.ok THEN m ELSE MountsLoop(input, i + 1, PushUnique(res, m.v), wd, fs)

sarus_mounts_from_strings(input, wd, fs) == MountsLoop(input, 1, <<>>, wd, fs)

(***************************************************************************)
(* edf_from_raw: the finalizer (src/lib.rs)                                *)
(***************************************************************************)
StrPodman == <<"p", "o", "d", "m", "a", "n">>
StrHpc == <<"h", "p", "c">>
StrDevShm == <<"/", "d", "e", "v", "/", "s", "h", "m">>
StrParallax == <<"p", "a", "r", "a", "l", "l", "a", "x">>

\* defaults with the booleans inverted
get_default_Inverted(f) ==
    CASE f \in {"annotations", "env"} -> EmptyMap
      [] f \in {"devices", "mounts"} -> <<>>
      [] f \in {"entrypoint", "parallax_enable", "writable"} -> FALSE
      [] f = "perfmon" -> TRUE
      [] OTHER -> <<>>

\* get_default_<field>()
get_default(f) ==
    CASE f \in {"annotations", "env"} -> EmptyMap
      [] f \in {"devices", "mounts"} -> <<>>
      [] f \in {"entrypoint", "parallax_enable", "writable"} -> TRUE
      [] f = "perfmon" -> FALSE
      [] f = "podman_module" -> StrHpc
      [] f = "podman_path" -> StrPodman
      [] f = "podman_tmp_path" -> StrDevShm
      [] f = "parallax_path" -> StrParallax
      [] OTHER -> <<>>

EDFFields == (RawFields \ {"base_environment", "engine"})

\* "match r.f { Some(s) => s, None => get_default_f() }"
OrDefault(r, f) == IF IsSome(r[f]) THEN Unwrap(r[f]) ELSE get_default(f)

edf_from_raw(r, wd, fs) ==
    LET ms == IF IsSome(r.mounts) THEN sarus_mounts_from_strings(Unwrap(r.mounts), wd, fs)
              ELSE Ok(get_default("mounts"))
    IN
    IF IsNone(r.image) THEN Err(7, None, <<>>)
    ELSE IF ~ms.ok THEN ms
    ELSE Ok([f \in EDFFields |->
                IF f = "annotations"
                    THEN (IF IsSome(r[f]) THEN annotations_as_hashmap(Unwrap(r[f])) ELSE get_default(f))
                ELSE IF f = "mounts" THEN ms.v
                ELSE OrDefault(r, f)])

(***************************************************************************)
(* load, validate, resolve_env_path (src/lib.rs)                           *)
(***************************************************************************)
\* load(file_path): TRUE when the text of the file is returned
load_ok(fs, path) ==
    /\ IsSome(FileName(path))
    /\ IsSome(Extension(path))
    /\ Unwrap(Extension(path)) = <<"t", "o", "m", "l">>
    /\ Exists(fs, path)
    /\ IsFile(fs, path)
    /\ CanOpen(fs, path)

\* a validator that stops at the first violation
validate_FirstOnly(fs, path) ==
    IF ~load_ok(fs, path) THEN Err(2, Some(path), <<>>)
    ELSE IF ~fs[path].toml_ok THEN Err(15, Some(path), <<>>)
    ELSE IF fs[path].violations /= <<>> THEN Err(4, Some(path), <<fs[path].violations[1]>>)
    ELSE Ok(<<>>)

\* validate(path): Ok(<<>>) or the error
validate(fs, path) ==
    IF ~load_ok(fs, path) THEN Err(2, Some(path), <<>>)
    ELSE IF ~fs[path].toml_ok THEN Err(15, Some(path), <<>>)
    ELSE IF fs[path].violations /= <<>> THEN Err(4, Some(path), fs[path].violations)
    ELSE Ok(<<>>)

\* every name is taken for a name to look up
LooksLikeName_Always(ee) == ee = ee

\* "it doesn't look like a file_path"
LooksLikeName(ee) == ~(StartsWith(ee, <<".">>) \/ StartsWith(ee, <<"/">>)) /\ ~EndsWith(ee, DotToml)

\* the candidate of search path entry s for the name ee
Candidate(s, ee) == s \o <<"/">> \o ee \o DotToml

\* a search loop that goes on to the last entry holding the file
RECURSIVE SearchLoop_Last(_, _, _, _)
SearchLoop_Last(fs, spl, ee, i) ==
    IF i > Len(spl) THEN None
    ELSE LET later == SearchLoop_Last(fs, spl, ee, i + 1) IN
         IF IsSome(later) THEN later
         ELSE IF IsFile(fs, Candidate(spl[i], ee)) /\ CanOpen(fs, Candidate(spl[i], ee))
             THEN Some(Candidate(spl[i], ee))
         ELSE None

\* the search loop: the first entry of sp[i..] whose candidate is a file that opens
RECURSIVE SearchLoop(_, _, _, _)
SearchLoop(fs, spl, ee, i) ==
    IF i > Len(spl) THEN None
    ELSE IF IsFile(fs, Candidate(spl[i], ee)) /\ CanOpen(fs, Candidate(spl[i], ee))
        THEN Some(Candidate(spl[i], ee))
    ELSE SearchLoop(fs, spl, ee, i + 1)

\* "environment \"{ee}\" not found at {paths}": the name and the joined search paths
NotFoundMsg(ee, spl) == [name |-> ee, paths |-> Join(spl, <<",">>)]

resolve_env_path(fs, name, spl, env, pe) ==
    LET e == expand_vars_string(name, env, pe) IN
    IF ~e.ok THEN e
    ELSE
        LET ee == e.v
            retopt == IF LooksLikeName(ee) THEN SearchLoop(fs, spl, ee, 1)
                      ELSE IF IsFile(fs, ee) /\ CanOpen(fs, ee) THEN Some(ee) ELSE None
        IN  IF IsSome(retopt) THEN Ok(Unwrap(retopt)) ELSE Err(6, None, NotFoundMsg(ee, spl))

EdfPathVar == <<"E", "D", "F", "_", "P", "A", "T", "H">>
HomeVar == <<"H", "O", "M", "E">>
DotEdf == <<"/", ".", "e", "d", "f">>

\* "$EDF_PATH or $HOME/.edf or nothing"; pe is the process environment
get_user_search_paths(pe) ==
    LET home_path == IF HomeVar \in DOMAIN pe THEN pe[HomeVar] ELSE <<>>
        edf_path == IF EdfPathVar \in DOMAIN pe THEN pe[EdfPathVar]
                    ELSE IF home_path /= <<>> THEN home_path \o DotEdf
                    ELSE <<>>
    IN  IF edf_path /= <<>> THEN <<edf_path>> ELSE <<>>

\* the entries of config.edf_system_search_path, separated by ":"
get_sys_search_paths(sys_search_path) ==
    IF sys_search_path /= <<>> THEN Split(sys_search_path, ":") ELSE <<>>

\* the user entries, then the system entries
get_search_paths(pe, sys_search_path) ==
    get_user_search_paths(pe) \o get_sys_search_paths(sys_search_path)

(***************************************************************************)
(* render_inner_loop and render_from_search_paths (src/lib.rs) as a state  *)
(* machine: one frame per active call, the innermost last.                 *)
(***************************************************************************)
\* "let max_levels = 10;"
MaxLevels == 10

Pending == [kind |-> "pending"]
Panic == [kind |-> "panic"]
Returned(r) == [kind |-> "returned", r |-> r]

\* the string scalars the "Expand variables in the fields" block names
ExpandedScalars == StringFields \ {"image"}

\* the block "Expand variables in the fields": devOrder is the order in
\* which the HashSet of the expanded devices is iterated
ExpandStage(cur, env, pe, devOrder) ==
    LET dv == IF IsSome(cur.devices) THEN expand_vars_vec(Unwrap(cur.devices), env, pe) ELSE Ok(<<>>)
        ev == IF IsSome(cur.env) THEN expand_vars_hashmap(Unwrap(cur.env), env, pe) ELSE Ok(EmptyMap)
        av == IF IsSome(cur.annotations)
              THEN expand_vars_hashmap(annotations_as_hashmap(Unwrap(cur.annotations)), env, pe)
              ELSE Ok(EmptyMap)
        sv(f) == IF IsSome(cur[f]) THEN expand_vars_string(Unwrap(cur[f]), env, pe) ELSE Ok(<<>>)
        bad == {f \in ExpandedScalars : ~sv(f).ok}
    IN
    IF ~dv.ok THEN dv
    ELSE IF ~ev.ok THEN ev
    ELSE IF ~av.ok THEN av
    ELSE IF bad /= {} THEN sv(CHOOSE f \in bad : TRUE)
    ELSE Ok([f \in RawFields |->
                IF IsNone(cur[f]) THEN None
                ELSE IF f = "devices" THEN Some(devOrder)
                ELSE IF f = "env" THEN Some(ev.v)
                ELSE IF f = "annotations" THEN Some(TypeHashMap(av.v))
                ELSE IF f \in ExpandedScalars THEN Some(sv(f).v)
                ELSE cur[f]])

\* devices left as expanded, repetitions included
UniqueOrders_NoDedup(v) == {v}

\* "dev.into_iter().collect::<HashSet<_>>().into_iter().collect()": the
\* distinct elements of v in any order
UniqueOrders(v) == Perms(Range(v))

\* the orders the expanded devices of cur may come out in
DeviceOrders(cur, env, pe) ==
    LET dv == IF IsSome(cur.devices) THEN expand_vars_vec(Unwrap(cur.devices), env, pe) ELSE Ok(<<>>) IN
    IF dv.ok THEN UniqueOrders(dv.v) ELSE {<<>>}

\* a call render_inner_loop(name, sp, env, count, max) that has just been made
Frame(name, count) ==
    [name |-> name, count |-> count, pc |-> "depth", path |-> <<>>,
     cur |-> RawEDF_default, acc |-> RawEDF_default, ba |-> <<>>, bi |-> 1, ret |-> None]

Top == stack[Len(stack)]
SetTop(f) == [stack EXCEPT ![Len(stack)] = f]
Fail(f, e) == [f EXCEPT !.pc = "ret", !.ret = Some(e)]

\* BaseEnvironment to the list ba
BaseList(be) == be.names

\* the environment of a run never changes
EnvUnchanged == UNCHANGED <<files, cwd, penv, uenv, sp, root, mself, mother, mout, mpc, bash, xin, xout, xpc, prev>>

\* a depth check that rejects one level early
DepthExceeded_OffByOne(c) == c >= MaxLevels

\* "if count > max"
DepthExceeded(c) == c > MaxLevels

\* render_from_search_paths: loop_count = 0, the first call
Render ==
    /\ result = Pending /\ stack = <<>> /\ mpc = "idle" /\ ~hist.started
    /\ stack' = <<Frame(root, 0)>>
    /\ hist' = [hist EXCEPT !.started = TRUE, !.calls = 1]
    /\ UNCHANGED result
    /\ EnvUnchanged

\* "count += 1; if count > max { return Err(code 5) }"
DepthCheck ==
    /\ stack /= <<>> /\ Top.pc = "depth"
    /\ LET c == Top.count + 1 IN
       /\ stack' = SetTop(IF DepthExceeded(c)
                          THEN Fail([Top EXCEPT !.count = c], Err(5, None, <<>>))
                          ELSE [Top EXCEPT !.count = c, !.pc = "resolve"])
       /\ hist' = [hist EXCEPT !.maxCount = IF c > @ THEN c ELSE @,
                               !.tooDeep = @ \/ DepthExceeded(c)]
    /\ UNCHANGED result
    /\ EnvUnchanged

\* "let edf_path = resolve_env_path(name.clone(), sp, env)?;"
ResolveName ==
    /\ stack /= <<>> /\ Top.pc = "resolve"
    /\ LET r == resolve_env_path(files, Top.name, sp, uenv, penv) IN
       stack' = SetTop(IF r.ok THEN [Top EXCEPT !.path = r.v, !.pc = "validate"] ELSE Fail(Top, r))
    /\ UNCHANGED <<result, hist>>
    /\ EnvUnchanged

\* "validate(edf_path.clone())?;"
Validate ==
    /\ stack /= <<>> /\ Top.pc = "validate"
    /\ LET r == validate(files, Top.path) IN
       stack' = SetTop(IF r.ok THEN [Top EXCEPT !.pc = "load"] ELSE Fail(Top, r))
    /\ UNCHANGED <<result, hist>>
    /\ EnvUnchanged

\* load and deserialize into cur_redf; with a base_environment, start the loop over ba
Load ==
    /\ stack /= <<>> /\ Top.pc = "load"
    /\ stack' = SetTop(
         IF ~load_ok(files, Top.path) THEN Fail(Top, Err(2, Some(Top.path), <<>>))
         ELSE IF ~files[Top.path].de_ok THEN Fail(Top, Err(3, Some(Top.path), <<>>))
         ELSE LET raw == files[Top.path].raw IN
              IF IsSome(raw.base_environment)
              THEN [Top EXCEPT !.cur = raw, !.acc = RawEDF_default,
                               !.ba = BaseList(Unwrap(raw.base_environment)), !.bi = 1, !.pc = "bases"]
              ELSE [Top EXCEPT !.cur = raw, !.pc = "expand"])
    /\ UNCHANGED <<result, hist>>
    /\ EnvUnchanged

\* "render_inner_loop(b.to_string(), &sp, env, count, max)" for the next b of ba
CallBase ==
    /\ stack /= <<>> /\ Top.pc = "bases" /\ Top.bi <= Len(Top.ba)
    /\ stack' = Append(stack, Frame(Top.ba[Top.bi], Top.count))
    /\ hist' = [hist EXCEPT !.calls = @ + 1]
    /\ UNCHANGED result
    /\ EnvUnchanged

\* a caller whose counter also counts the bases that have returned
AfterBase_SharedCount(caller, r) ==
    IF ~r.ok THEN Fail(caller, r)
    ELSE [caller EXCEPT !.acc = extend(@, r.v), !.bi = @ + 1, !.count = @ + 1]

\* a caller that skips a failed base and goes on with the next
AfterBase_Swallow(caller, r) ==
    IF ~r.ok THEN [caller EXCEPT !.bi = @ + 1]
    ELSE [caller EXCEPT !.acc = extend(@, r.v), !.bi = @ + 1]

\* what the caller does with the value a base call returned: "?", then the
\* println! that unwraps the base's image, then base_redf.extend(_base_redf)
AfterBase(caller, r) ==
    IF ~r.ok THEN Fail(caller, r)
    ELSE [caller EXCEPT !.acc = extend(@, r.v), !.bi = @ + 1]

\* the println! line panics on a base whose image is None
PrintlnPanics(r) == r.ok /\ IsNone(r.v.image)

\* a base call returns to the loop of its caller
ReturnToCaller ==
    /\ Len(stack) >= 2 /\ Top.pc = "ret"
    /\ LET r == Unwrap(Top.ret)
           caller == stack[Len(stack) - 1]
       IN  IF PrintlnPanics(r)
           THEN /\ stack' = <<>>
                /\ result' = Panic
                /\ hist' = hist
           ELSE /\ stack' = [Take(stack, Len(stack) - 1) EXCEPT ![Len(stack) - 1] = AfterBase(caller, r)]
                /\ result' = result
                /\ hist' = IF r.ok
                           THEN [hist EXCEPT !.lastMerge = Some([self |-> caller.acc, other |-> r.v,
                                                                       out |-> extend(caller.acc, r.v)])]
                           ELSE hist
    /\ EnvUnchanged

\* after the loop: "cur_redf.base_environment = None; base_redf.extend(cur_redf);
\* cur_redf = base_redf;"
MergeCurrent ==
    /\ stack /= <<>> /\ Top.pc = "bases" /\ Top.bi > Len(Top.ba)
    /\ LET own == [Top.cur EXCEPT !.base_environment = None]
           merged == extend(Top.acc, own)
       IN  /\ stack' = SetTop([Top EXCEPT !.cur = merged, !.pc = "expand"])
           /\ hist' = [hist EXCEPT !.lastMerge = Some([self |-> Top.acc, other |-> own, out |-> merged])]
    /\ UNCHANGED result
    /\ EnvUnchanged

\* the expansion block and "return Ok(cur_redf)"
ExpandFields ==
    /\ stack /= <<>> /\ Top.pc = "expand"
    /\ \E devOrder \in DeviceOrders(Top.cur, uenv, penv) :
         LET r == ExpandStage(Top.cur, uenv, penv, devOrder) IN
         stack' = SetTop([Top EXCEPT !.pc = "ret", !.ret = Some(r), !.cur = IF r.ok THEN r.v ELSE @])
    /\ UNCHANGED <<result, hist>>
    /\ EnvUnchanged

\* the first call returns to render_from_search_paths: "?", then edf_from_raw
Finish ==
    /\ Len(stack) = 1 /\ Top.pc = "ret"
    /\ LET r == Unwrap(Top.ret) IN
       result' = Returned(IF r.ok THEN edf_from_raw(r.v, cwd, files) ELSE r)
    /\ hist' = [hist EXCEPT !.resolved = Top.ret]
    /\ stack' = <<>>
    /\ EnvUnchanged

\* RawEDF::extend applied to the pair (mself, mother)
Extend ==
    /\ mpc = "ready"
    /\ mout' = extend(mself, mother)
    /\ mpc' = "done"
    /\ UNCHANGED <<files, cwd, penv, uenv, sp, root, stack, result, hist, mself, mother, bash, xin, xout, xpc, prev>>

(***************************************************************************)
(* The documents, environments and file systems the runs are drawn from    *)
(***************************************************************************)
\* the longest base_environment chain of the chain scenarios
MaxChain == 11

Digit(i) == <<"0", "1", "2", "3", "4", "5", "6", "7", "8", "9">>[i + 1]
NatStr(n) == IF n < 10 THEN <<Digit(n)>> ELSE <<Digit(n \div 10), Digit(n % 10)>>

DirU == <<"/", "u">>
DirS == <<"/", "s">>
DirW == <<"/", "w">>
DirT == <<"/", "t">>
DirH == <<"/", "h">>
NameR == <<"r">>
NameP == <<"p">>
NameQ == <<"q">>
NameM == <<"m">>
D1 == <<"d", "1">>
D2 == <<"d", "2">>
D3 == <<"d", "3">>
VarX == <<"$", "X">>
VarZ == <<"$", "Z">>
VarU == <<"$", "U">>
KeyA == <<"a">>
KeyB == <<"b">>
KeyC == <<"c">>
Val1 == <<"1">>
Val2 == <<"2">>
Val3 == <<"3">>
MntAB == <<"/", "a", ":", "/", "b">>
MntCD == <<".", "/", "c", ":", ".", "/", "d">>
MntABro == <<"/", "a", ":", "/", "b", ":", "r", "o">>
MntTmp == <<"t", "m", "p", "f", "s", ":", "/", "t">>
MntBad == <<"a", ":", "b">>

\* X is set; Z holds a text that is itself a variable reference; U is unset
TheEnv == (<<"X">> :> D1) @@ (<<"Z">> :> VarX)

\* a RawEDF from the fields a document sets
Raw(o) == [f \in RawFields |-> IF f \in DOMAIN o THEN Some(o[f]) ELSE None]
WithBase(raw, be) == [raw EXCEPT !.base_environment = be]

\* the violations the fixed schema reports for a document: the schema checks
\* structure and types only, and every field of a RawEDF is well typed
SchemaViolations(raw) == IF \A f \in DOMAIN raw : f \in RawFields THEN <<>> ELSE <<<<"v", "0">>>>

EdfFile(raw) ==
    [kind |-> "file", readable |-> TRUE, toml_ok |-> TRUE, violations |-> SchemaViolations(raw),
     de_ok |-> TRUE, raw |-> raw]
DirEntry == [EdfFile(RawEDF_default) EXCEPT !.kind = "dir", !.toml_ok = FALSE, !.de_ok = FALSE]

PImg(i) == [image |-> <<"i">> \o i]
PNone == EmptyMap
PFull1 ==
    [image |-> <<"i", "1">>, workdir |-> <<"/", "w", "1">>, entrypoint |-> FALSE, engine |-> <<"e", "1">>,
     env |-> (KeyA :> Val1) @@ (KeyB :> Val2),
     annotations |-> TypeMap((KeyA :> VStr(Val1)) @@ (KeyB :> VStr(Val2))),
     devices |-> <<D1, D2>>, mounts |-> <<MntAB, MntCD>>]
PFull2 ==
    [image |-> <<"i", "2">>, workdir |-> <<"/">> \o VarX, perfmon |-> TRUE, engine |-> <<"e", "2">>,
     env |-> (KeyB :> VarX),
     annotations |-> TypeMap(KeyB :> VStr(Val3)),
     devices |-> <<D2, VarX, D2>>, mounts |-> <<MntAB, MntABro, MntTmp, MntAB>>]
PReexp ==
    [image |-> <<"i", "3">>, devices |-> <<VarZ>>, env |-> (KeyC :> VarZ), podman_path |-> VarZ,
     annotations |-> TypeMap(KeyC :> VTable((KeyA :> VStr(VarZ)) @@ (KeyB :> VBool(TRUE))))]
PEmptyImg == [image |-> <<>>, writable |-> FALSE]
PUnset == [image |-> <<"i", "4">>, devices |-> <<VarU>>]
PBadMount == [image |-> <<"i", "5">>, mounts |-> <<MntCD, MntBad>>]

RootProfiles == {PNone, PFull2, PReexp, PEmptyImg, PBadMount}
BaseProfiles == {PNone, PFull1, PFull2, PReexp, PUnset}
LeafProfiles == {PImg(<<"q">>), PFull1, PReexp}

RootBases == {None, Some(TypeString(NameP)), Some(TypeVec(<<NameP, NameQ>>)),
              Some(TypeVec(<<NameQ, NameP>>)), Some(TypeVec(<<>>))}
MidBases == {None, Some(TypeString(NameQ)), Some(TypeString(NameR)), Some(TypeString(NameM))}

Modes == {None, Some(TheEnv)}

\* a run of render_from_search_paths with the search paths get_search_paths
\* gives for the process environment pe and the configured system path
ScenarioIn(fs, name, mode, pe, sys_search_path) ==
    [files |-> fs, root |-> name, uenv |-> mode, penv |-> pe, cwd |-> Some(DirW),
     sp |-> get_search_paths(pe, sys_search_path)]

\* EDF_PATH names the user directory /u, the system directory is /s
Scenario(fs, name, mode) == ScenarioIn(fs, name, mode, TheEnv @@ (EdfPathVar :> DirU), DirS)

\* three documents r, p, q in the user directory
TreeScenarios ==
    {Scenario((Candidate(DirU, NameR) :> EdfFile(WithBase(Raw(pr), br)))
              @@ (Candidate(DirU, NameP) :> EdfFile(WithBase(Raw(pp), bp)))
              @@ (Candidate(DirU, NameQ) :> EdfFile(Raw(pq))),
              NameR, mode) :
        pr \in RootProfiles, pp \in BaseProfiles, pq \in LeafProfiles,
        br \in RootBases, bp \in MidBases, mode \in Modes}

\* a chain c1 -> c2 -> ... -> cL; the last document ends the chain, names
\* itself, names c1, or names a document that is nowhere; the bases set an
\* image or leave it to the root
NameNowhere == <<"n", "o">>
ChainName(i) == <<"c">> \o NatStr(i)
ChainDoc(i, len, tail, imgs) ==
    WithBase(Raw(IF imgs = "all" \/ i = 1
                 THEN [image |-> <<"i">> \o NatStr(i), env |-> (KeyA :> NatStr(i)) @@ (<<"k">> \o NatStr(i) :> Val1)]
                 ELSE [env |-> (KeyA :> NatStr(i))]),
             IF i < len THEN Some(TypeString(ChainName(i + 1)))
             ELSE IF tail = "self" THEN Some(TypeString(ChainName(i)))
             ELSE IF tail = "back" THEN Some(TypeVec(<<ChainName(1)>>))
             ELSE IF tail = "nowhere" THEN Some(TypeString(NameNowhere))
             ELSE None)
ChainFiles(len, tail, imgs) ==
    [path \in {Candidate(DirU, ChainName(i)) : i \in 1..len} |->
        EdfFile(ChainDoc(CHOOSE i \in 1..len : Candidate(DirU, ChainName(i)) = path, len, tail, imgs))]
ChainScenarios ==
    {Scenario(ChainFiles(len, tail, imgs), ChainName(1), mode) :
        len \in 1..MaxChain, tail \in {"end", "self", "back", "nowhere"}, imgs \in {"all", "root"}, mode \in Modes}

\* a document w whose bases are the MaxChain documents c1, c2, ..., none of
\* which has a base
NameW == <<"w">>
WideFiles ==
    (Candidate(DirU, NameW)
        :> EdfFile(WithBase(Raw(PImg(<<"w">>)), Some(TypeVec([i \in 1..MaxChain |-> ChainName(i)])))))
    @@ [path \in {Candidate(DirU, ChainName(i)) : i \in 1..MaxChain} |->
            LET n == CHOOSE i \in 1..MaxChain : Candidate(DirU, ChainName(i)) = path
            IN  EdfFile(ChainDoc(n, n, "end", "all"))]
WideScenarios == {Scenario(WideFiles, NameW, mode) : mode \in Modes}

\* a document m whose image (and engine) is a variable reference, to a
\* variable that is set or to one that is not
ImageScenarios ==
    {Scenario(Candidate(DirU, NameM) :> EdfFile(Raw([image |-> var, engine |-> var, env |-> (KeyA :> VarX)])),
              NameM, mode) :
        var \in {VarX, VarU}, mode \in Modes}

\* r with the bases p and q, where p is in some state of disrepair and is
\* found in the user directory, the system directory or both
Broken(f, how) ==
    CASE how = "ok" -> f
      [] how = "dir" -> DirEntry
      [] how = "unreadable" -> [f EXCEPT !.readable = FALSE]
      [] how = "badtoml" -> [f EXCEPT !.toml_ok = FALSE, !.de_ok = FALSE]
      [] how = "schema1" -> [f EXCEPT !.violations = <<<<"v", "1">>>>]
      [] how = "schema2" -> [f EXCEPT !.violations = <<<<"v", "1">>, <<"v", "2">>>>]
      [] how = "badde" -> [f EXCEPT !.de_ok = FALSE]
Hows == {"ok", "dir", "unreadable", "badtoml", "schema1", "schema2", "badde"}
RootNames == {NameR, Candidate(DirU, NameR), <<"x">> \o DotToml, DirU \o <<"/">> \o NameR}

\* how the process environment names the user directory: by EDF_PATH, by
\* HOME, by both, by an empty EDF_PATH next to a HOME, or not at all
UserEnvs ==
    {(EdfPathVar :> DirU), (HomeVar :> DirH), (EdfPathVar :> DirU) @@ (HomeVar :> DirH),
     (EdfPathVar :> <<>>) @@ (HomeVar :> DirH), EmptyMap}
\* the directory the user's documents are in
UserDir(ue) == IF get_user_search_paths(ue) /= <<>> THEN get_user_search_paths(ue)[1] ELSE DirU
\* the configured system search path
SysSearchPaths == {DirS \o <<":">> \o DirT, <<>>}

FailureScenarios ==
    {ScenarioIn((Candidate(DirU, NameR)
                        :> Broken(EdfFile(WithBase(Raw(PImg(<<"r">>)), Some(TypeVec(<<NameP, NameQ>>)))), howr))
                @@ (Candidate(UserDir(ue), NameR)
                        :> Broken(EdfFile(WithBase(Raw(PImg(<<"r">>)), Some(TypeVec(<<NameP, NameQ>>)))), howr))
                @@ (DirU :> DirEntry)
                @@ (IF where \in {"user", "all"}
                    THEN Candidate(UserDir(ue), NameP) :> Broken(EdfFile(Raw(PImg(<<"u">>))), how) ELSE EmptyMap)
                @@ (IF where \in {"sys", "all"}
                    THEN Candidate(DirS, NameP) :> EdfFile(Raw(PImg(<<"s">>))) ELSE EmptyMap)
                @@ (IF where \in {"sys2", "all"}
                    THEN Candidate(DirT, NameP) :> EdfFile(Raw(PImg(<<"t">>))) ELSE EmptyMap)
                @@ (Candidate(UserDir(ue), NameQ) :> Broken(EdfFile(Raw(PImg(<<"q">>))), howq)),
                name, mode, TheEnv @@ ue, ssp) :
        how \in Hows, howq \in {"ok", "schema1"}, howr \in {"ok", "schema2"}, where \in {"user", "sys", "sys2", "all", "none"},
        name \in RootNames, mode \in Modes, ue \in UserEnvs, ssp \in SysSearchPaths}

Scenarios == TreeScenarios \cup ChainScenarios \cup WideScenarios \cup ImageScenarios \cup FailureScenarios

\* no single call is being made
NoCall == [fn |-> "none"]

Hist0 == [started |-> FALSE, calls |-> 0, maxCount |-> 0, tooDeep |-> FALSE, lastMerge |-> None, resolved |-> None]

Init ==
    /\ \E sc \in Scenarios :
        /\ files = sc.files /\ root = sc.root /\ uenv = sc.uenv
        /\ penv = sc.penv /\ cwd = sc.cwd /\ sp = sc.sp
    /\ stack = <<>>
    /\ result = Pending
    /\ hist = Hist0
    /\ mself = RawEDF_default /\ mother = RawEDF_default /\ mout = RawEDF_default
    /\ mpc = "idle"
    /\ bash = "present"
    /\ xin = NoCall /\ xout = None /\ xpc = "idle" /\ prev = None

Next ==
    \/ Render
    \/ DepthCheck
    \/ ResolveName
    \/ Validate
    \/ Load
    \/ CallBase
    \/ ReturnToCaller
    \/ MergeCurrent
    \/ ExpandFields
    \/ Finish

Spec == Init /\ [][Next]_vars

(***************************************************************************)
(* The pairs of documents extend is applied to                             *)
(***************************************************************************)
FieldVals(f) ==
    IF f \in BoolFields THEN {None, Some(TRUE), Some(FALSE)}
    ELSE IF f \in StringFields THEN {None, Some(<<"u">>), Some(<<"v">>)}
    ELSE IF f = "env" THEN {None, Some(EmptyMap), Some(PFull1.env), Some(PFull2.env)}
    ELSE IF f = "annotations"
        THEN {None, Some(PFull1.annotations), Some(PFull2.annotations), Some(PReexp.annotations),
              Some(TypeHashMap((KeyA :> Val1) @@ (KeyB :> Val2)))}
    ELSE IF f = "devices" THEN {None, Some(<<>>), Some(<<D1, D2>>), Some(<<D2, D3>>)}
    ELSE IF f = "mounts" THEN {None, Some(<<>>), Some(<<MntAB, MntCD>>), Some(<<MntAB, MntTmp>>)}
    ELSE {None, Some(TypeString(NameP)), Some(TypeVec(<<NameP, NameQ>>))}

InitMerge ==
    /\ \E ta \in {RawEDF_default, Raw(PFull1)}, tb \in {RawEDF_default, Raw(PFull2)}, f \in RawFields :
        \E a \in FieldVals(f), b \in FieldVals(f) :
            /\ mself = [ta EXCEPT ![f] = a]
            /\ mother = [tb EXCEPT ![f] = b]
    /\ mout = RawEDF_default
    /\ mpc = "ready"
    /\ files = EmptyMap /\ root = <<>> /\ uenv = None /\ penv = EmptyMap /\ cwd = None /\ sp = <<>>
    /\ stack = <<>>
    /\ result = Pending
    /\ hist = Hist0
    /\ bash = "present"
    /\ xin = NoCall /\ xout = None /\ xpc = "idle" /\ prev = None

NextMerge == Extend

SpecMerge == InitMerge /\ [][NextMerge]_vars

\* both harnesses: the runs of render and the applications of extend
SpecBoth == (Init \/ InitMerge) /\ [][Next \/ NextMerge]_vars

(***************************************************************************)
(* Single calls of expand_vars_string and of SarusMount::try_new           *)
(***************************************************************************)
\* what a text that started a command can leave on stdout: nothing, some
\* output of the command, or bytes that are no UTF-8 string (code 19)
InjectedOutcomes == {Ok(<<>>), Ok(<<"o">>), Err(19, None, <<>>)}

\* the process ids a shell can have
Pids == {"7", "8"}
WithPid(r, p) ==
    IF r.ok THEN Ok([i \in 1..Len(r.v) |-> IF r.v[i] = ProcessId THEN p ELSE r.v[i]]) ELSE r

\* the outcomes of expand_vars_string(s, env) in the process environment pe
ExpandOutcomes(s, env, pe) ==
    IF /\ IsSome(env) /\ ~re_banned_is_match(s) /\ bash = "present"
       /\ BashDoubleQuoted(s, Unwrap(env)).status = "injected"
    THEN InjectedOutcomes
    ELSE IF IsSome(env) THEN {WithPid(expand_vars_string(s, env, pe), p) : p \in Pids}
    ELSE {expand_vars_string(s, env, pe)}

\* expand_vars_string(text, env)
Expand ==
    /\ xpc = "ready" /\ xin.fn = "expand"
    /\ \E r \in ExpandOutcomes(xin.text, xin.env, xin.pe) :
        xout' = Some(r)
    /\ xpc' = "done"
    /\ UNCHANGED <<files, cwd, penv, uenv, sp, root, stack, result, hist, mself, mother, mout, mpc, bash, xin, prev>>

\* SarusMount::try_new(input)
TryNew ==
    /\ xpc = "ready" /\ xin.fn = "try_new"
    /\ xout' = Some(try_new(xin.input, cwd, files))
    /\ xpc' = "done"
    /\ UNCHANGED <<files, cwd, penv, uenv, sp, root, stack, result, hist, mself, mother, mout, mpc, bash, xin, prev>>

\* the longest text over the alphabet
MaxText == 4
Alphabet == {"$", "(", "\\", "\"", ";", Backquote, "X"}
SmallTexts == UNION {[1..n -> Alphabet] : n \in 0..MaxText}

\* the texts of the tests of src/common.rs (XXX is set, YYY is not), and
\* texts with three and four backslashes before a token
VarXXX == <<"X", "X", "X">>
VarYYY == <<"Y", "Y", "Y">>
Dashed(mid) == <<"x", "-">> \o mid \o <<"-", "x">>
TestTexts ==
    {Dashed(<<"$">> \o VarXXX), Dashed(<<"$", "{">> \o VarXXX \o <<"}">>),
     Dashed(<<"\\", "$", "(">> \o VarXXX \o <<")">>), Dashed(<<"$", "\\", "(">> \o VarXXX \o <<")">>),
     Dashed(<<"\\", Backquote>> \o VarXXX \o <<"\\", Backquote>>),
     <<"x", "\\", ";">>, <<"\\", "\"", "x", "\\", "\"">>,
     Dashed(<<"$", "{">> \o VarYYY \o <<"}">>), Dashed(<<"$">> \o VarYYY),
     Dashed(<<"$", "{">> \o VarYYY \o <<":", "-", "2", "2", "2", "}">>),
     Dashed(<<"$", "(">> \o VarXXX \o <<")">>), Dashed(<<Backquote>> \o VarXXX \o <<Backquote>>),
     Dashed(<<"\"">>), <<"x", ";">>, <<";", " ", "x">>, <<"\"", " ", ">", "/", "f">>,
     <<"\\", "\\", "\\", "$", "(", "X", ")">>, <<"\\", "\\", "\\", "\\", "$", "(", "X", ")">>,
     <<"\\", "\\", "\\", "\\", "\"">>, <<"x", "\\", "\\", ";">>}

\* the explicit and the process environments of the single calls
EnvXXX == (VarXXX :> <<"1", "1", "1">>) @@ (<<"X">> :> <<"1">>)
ProcEnv == (VarXXX :> <<"9">>) @@ (VarYYY :> <<"7">>) @@ (<<"X">> :> <<"9">>)
ExpandSettings ==
    {[env |-> Some(EnvXXX), pe |-> ProcEnv, bash |-> "present"],
     [env |-> Some(EmptyMap), pe |-> EmptyMap, bash |-> "present"],
     [env |-> Some(EnvXXX), pe |-> EmptyMap, bash |-> "absent"],
     [env |-> None, pe |-> ProcEnv, bash |-> "present"]}
AllSettings == [env : {None, Some(EmptyMap), Some(EnvXXX)}, pe : {EmptyMap, ProcEnv}, bash : {"present", "absent"}]

ExpandCall(text, set) == [fn |-> "expand", text |-> text, env |-> set.env, pe |-> set.pe]

\* the state around a single call made in the working directory wd
SingleCallIn(call, b, fs, wd) ==
    /\ xin = call /\ bash = b /\ xout = None /\ xpc = "ready" /\ prev = None
    /\ files = fs /\ cwd = wd
    /\ root = <<>> /\ uenv = None /\ penv = EmptyMap /\ sp = <<>>
    /\ stack = <<>> /\ result = Pending /\ hist = Hist0
    /\ mself = RawEDF_default /\ mother = RawEDF_default /\ mout = RawEDF_default /\ mpc = "idle"

SingleCall(call, b, fs) == SingleCallIn(call, b, fs, Some(DirW))

InitExpand ==
    \/ \E text \in SmallTexts, set \in ExpandSettings : SingleCall(ExpandCall(text, set), set.bash, EmptyMap)
    \/ \E text \in TestTexts, set \in AllSettings : SingleCall(ExpandCall(text, set), set.bash, EmptyMap)

NextExpand == Expand

SpecExpand == InitExpand /\ [][NextExpand]_vars

\* one call after another: the call just made is remembered, another is chosen
BashStates == {"present", "absent"}
CallTexts ==
    {<<"X">>, <<"$", "(", "X", ")">>, <<"$", "$">>, <<"$", "X">>, <<"\\", "\\", "$", "(", "X", ")">>,
     <<"$", "{">> \o VarYYY \o <<"}">>}
ExpandCalls == {ExpandCall(text, set) : text \in CallTexts, set \in AllSettings}

FileF == <<"/", "f">>
DirD == <<"/", "d">>
MountFs == (FileF :> EdfFile(RawEDF_default)) @@ (DirD :> DirEntry)
ToM == <<":", "/", "m">>
MountInputs ==
    {FileF \o ToM \o <<":">> \o Sqsh, <<"/", "n">> \o ToM \o <<":">> \o Sqsh, DirD \o ToM \o <<":">> \o Sqsh,
     <<"x">> \o ToM \o <<":">> \o Sqsh, <<"x">> \o ToM, FileF \o <<":", "m">>, FileF, FileF \o ToM}
MountCalls == {[fn |-> "try_new", input |-> i] : i \in MountInputs}
Calls == ExpandCalls \cup MountCalls

Again ==
    /\ xpc = "done"
    /\ prev' = Some([call |-> xin, bash |-> bash, out |-> Unwrap(xout)])
    /\ xin' \in Calls /\ bash' \in BashStates
    /\ xout' = None /\ xpc' = "ready"
    /\ UNCHANGED <<files, cwd, penv, uenv, sp, root, stack, result, hist, mself, mother, mout, mpc>>

InitCalls == \E call \in Calls, b \in BashStates : SingleCall(call, b, MountFs)

NextCalls == Expand \/ TryNew \/ Again

SpecCalls == InitCalls /\ [][NextCalls]_vars

\* single calls of SarusMount::try_new: sources, targets and flags of every
\* kind, in a working directory that can or cannot be told. env is the
\* explicit environment the caller holds (lib.rs:305 hands it over;
\* try_new of src/mount.rs has no parameter for it).
WFile == DirW \o FileF
MountTreeFs == MountFs @@ (WFile :> EdfFile(RawEDF_default))
Rbind == <<"r", "b", "i", "n", "d">>
MountSources ==
    {<<".">> \o FileF, FileF, DirD, <<"/", "n">>, <<".", "/", "n">>, <<".", "f">>, <<".", ".">> \o FileF,
     <<".">>, <<"/">>, <<"f">>, <<>>, Tmpfs, Umount, Tmpfs \o <<"x">>, <<"/", "f", " ", "g">>,
     <<"/", "$", "X">>, <<"$", "X">>}
MountTargets == {<<"/", "m">>, <<".", "/", "m">>, <<"m">>, <<".", "m">>, <<>>, <<"/", "$", "Y">>}
MountFlagFields ==
    {<<>>, <<"r", "o">>, Rbind, Sqsh, <<"r", "o", ",", "r", "o">>, TmpfsFlags, <<"r", "o", ",">> \o Rbind}
MountSpecs ==
    {s \o <<":">> \o tg : s \in MountSources, tg \in MountTargets}
    \cup {s \o <<":">> \o tg \o <<":">> \o f : s \in MountSources, tg \in MountTargets, f \in MountFlagFields}
    \cup {FileF, <<>>, FileF \o ToM \o <<":", "r", "o", ":", "x">>}

InitMounts ==
    \E i \in MountSpecs, wd \in {Some(DirW), None} :
        SingleCallIn([fn |-> "try_new", input |-> i, env |-> Some(EnvXXX)], "present", MountTreeFs, wd)

NextMounts == TryNew

SpecMounts == InitMounts /\ [][NextMounts]_vars

(***************************************************************************)
(* Config and update_config_by_user (src/config.rs)                        *)
(***************************************************************************)
ConfigStringFields ==
    {"parallax_imagestore", "parallax_mount_program", "parallax_path", "podman_module", "podman_path",
     "podman_tmp_path", "runtime_path", "tracking_tool"}
ConfigBoolFields == {"perfmon", "skybox_enabled", "tracking_enabled"}
ConfigFields == ConfigStringFields \cup ConfigBoolFields \cup {"edf_system_search_path"}

\* the annotation key com.sarus.<field>, written as the sequence of its parts
ConfigKey(f) == <<"com", ".", "sarus", ".", f>>
StrTrue == <<"t", "r", "u", "e">>
StrFalse == <<"f", "a", "l", "s", "e">>

\* an override that takes every field of the Config from its annotation
update_config_AllFields(config, edf) ==
    [f \in ConfigFields |->
        LET a == MapGet(edf.annotations, ConfigKey(f)) IN
        IF IsNone(a) THEN config[f]
        ELSE IF f \in ConfigBoolFields
            THEN (IF Unwrap(a) = StrTrue THEN TRUE ELSE IF Unwrap(a) = StrFalse THEN FALSE ELSE config[f])
        ELSE Unwrap(a)]

\* update_config_by_user: the Config after the call
update_config_by_user(config, edf) ==
    [f \in ConfigFields |->
        LET a == MapGet(edf.annotations, ConfigKey(f)) IN
        IF IsNone(a) THEN config[f]
        ELSE IF f \in ConfigStringFields THEN Unwrap(a)
        ELSE IF f \in ConfigBoolFields
            THEN (IF Unwrap(a) = StrTrue THEN TRUE ELSE IF Unwrap(a) = StrFalse THEN FALSE ELSE config[f])
        ELSE config[f]]

UpdateConfig ==
    /\ xpc = "ready" /\ xin.fn = "update_config_by_user"
    /\ xout' = Some(update_config_by_user(xin.config, xin.edf))
    /\ xpc' = "done"
    /\ UNCHANGED <<files, cwd, penv, uenv, sp, root, stack, result, hist, mself, mother, mout, mpc, bash, xin, prev>>

\* the most annotations of an EDF
MaxAnnotations == 2

\* two Configs that differ in every field
ConfigOf(s, b, ssp) ==
    [f \in ConfigFields |->
        IF f \in ConfigBoolFields THEN b ELSE IF f = "edf_system_search_path" THEN ssp ELSE s]
Configs == {ConfigOf(<<"c">>, FALSE, DirS), ConfigOf(<<"d">>, TRUE, DirS \o <<":">> \o DirT)}

\* finalized EDFs with at most MaxAnnotations annotations
AnnotationKeys == {ConfigKey(f) : f \in ConfigFields} \cup {<<"k">>}
AnnotationValues == {StrTrue, StrFalse, <<"v">>}
AnnotationMaps ==
    UNION {[S -> AnnotationValues] : S \in {K \in SUBSET AnnotationKeys : Cardinality(K) <= MaxAnnotations}}
FinalizedWith(a) ==
    edf_from_raw([RawEDF_default EXCEPT !.image = Some(<<"i">>), !.annotations = Some(TypeHashMap(a))],
                 Some(DirW), EmptyMap).v

InitConfig ==
    \E c \in Configs, a \in AnnotationMaps :
        SingleCall([fn |-> "update_config_by_user", config |-> c, edf |-> FinalizedWith(a)], "present", EmptyMap)

NextConfig == UpdateConfig

SpecConfig == InitConfig /\ [][NextConfig]_vars

(***************************************************************************)
(* What the properties speak of                                            *)
(***************************************************************************)
ListOf(o) == IF IsSome(o) THEN Unwrap(o) ELSE <<>>
HashMapOf(o) == IF IsSome(o) THEN annotations_as_hashmap(Unwrap(o)) ELSE EmptyMap
EnvOf(o) == IF IsSome(o) THEN Unwrap(o) ELSE EmptyMap

RenderOk == result.kind = "returned" /\ result.r.ok
RenderErr(c) == result.kind = "returned" /\ ~result.r.ok /\ result.r.code = c
TheEDF == result.r.v
\* the document the first call returned to render_from_search_paths
Resolved == Unwrap(hist.resolved).v

\* the document a name stands for, as authored
DocRaw(name) == files[resolve_env_path(files, name, sp, uenv, penv).v].raw
BasesOf(raw) == IF IsSome(raw.base_environment) THEN BaseList(Unwrap(raw.base_environment)) ELSE <<>>

RECURSIVE Flatten(_)
Flatten(ss) == IF ss = <<>> THEN <<>> ELSE Head(ss) \o Flatten(Tail(ss))

\* the documents of the chain of name, lowest precedence first: the bases
\* in list order, each with its own chain before it, then the document;
\* depth is the nesting depth of the document, the root being at 1
RECURSIVE Lin(_, _)
Lin(name, depth) ==
    IF depth > MaxLevels THEN <<>>
    ELSE LET raw == DocRaw(name)
             bs == BasesOf(raw)
         IN  Flatten([i \in 1..Len(bs) |-> Lin(bs[i], depth + 1)]) \o <<[raw |-> raw, depth |-> depth]>>

\* n passes of the expander over s
RECURSIVE ExpandN(_, _)
ExpandN(s, n) == IF n = 0 THEN s ELSE ExpandN(expand_vars_string(s, uenv, penv).v, n - 1)

\* the elements of s without the repetitions, each where it first occurs
FirstSeen(s) == SelectSeq([i \in 1..Len(s) |-> [x |-> s[i], first |-> \A j \in 1..(i - 1) : s[j] /= s[i]]],
                          LAMBDA e : e.first)
FirstSeenValues(s) == [i \in 1..Len(FirstSeen(s)) |-> FirstSeen(s)[i].x]

(***************************************************************************)
(* C1.  render fails with TooDeep (code 5) whenever resolving the root     *)
(* makes a call at nesting depth 11 or more, a document naming itself as   *)
(* its base included; a call at depth 10 or less is never rejected by the  *)
(* depth check.                                                            *)
(***************************************************************************)
C1_TooDeepBeyondTen ==
    /\ hist.tooDeep <=> hist.maxCount > 10
    /\ hist.tooDeep /\ stack /= <<>> => Top.pc = "ret" /\ Top.ret = Some(Err(5, None, <<>>))
    /\ hist.tooDeep /\ stack = <<>> => result = Returned(Err(5, None, <<>>))
    /\ \A i \in 1..Len(stack) : stack[i].ret = Some(Err(5, None, <<>>)) => hist.maxCount > 10
    /\ RenderErr(5) => hist.maxCount > 10

\* a document that names itself as its only base is rejected with code 5
C1_Witness ==
    /\ RenderErr(5)
    /\ BasesOf(DocRaw(root)) = <<root>>
    /\ hist.calls = 11 /\ hist.maxCount = 11

(***************************************************************************)
(* C2.  Every render call ends with an EDF or an error, and never more     *)
(* than 10 resolve calls that passed the depth check are active at once.   *)
(***************************************************************************)
C2_EndsWithEdfOrError ==
    /\ result.kind \in {"pending", "returned"}
    /\ Cardinality({i \in 1..Len(stack) : stack[i].pc /= "depth" /\ stack[i].count <= 10}) <= 10
    /\ Len(stack) <= 11

(***************************************************************************)
(* C3.  extend is right-biased on every scalar field of the raw document:  *)
(* the result holds other's value when other sets the field and self's     *)
(* value otherwise.                                                        *)
(***************************************************************************)
C3_ScalarsRightBiased ==
    mpc = "done" =>
        \A f \in ScalarFields : mout[f] = IF IsSome(mother[f]) THEN mother[f] ELSE mself[f]

(***************************************************************************)
(* C4.  For env and annotations, extend yields the union of the two key    *)
(* sets; a key of both takes other's value, a key of one keeps its value,  *)
(* and self's map is unchanged when other has none.  A child with          *)
(* annotations {b:3} over a base with {a:1, b:2} renders {a:1, b:3}.       *)
(***************************************************************************)
UnionRightBiased(out, a, b) ==
    /\ DOMAIN out = (DOMAIN a) \cup (DOMAIN b)
    /\ \A k \in DOMAIN b : out[k] = b[k]
    /\ \A k \in (DOMAIN a) \ (DOMAIN b) : out[k] = a[k]

MapsMerged(m) ==
    /\ IsNone(m.other.env) => m.out.env = m.self.env
    /\ IsSome(m.other.env) =>
        IsSome(m.out.env) /\ UnionRightBiased(Unwrap(m.out.env), EnvOf(m.self.env), Unwrap(m.other.env))
    /\ IsNone(m.other.annotations) => m.out.annotations = m.self.annotations
    /\ IsSome(m.other.annotations) =>
        /\ IsSome(m.out.annotations)
        /\ UnionRightBiased(HashMapOf(m.out.annotations), HashMapOf(m.self.annotations),
                            HashMapOf(m.other.annotations))

\* the child sets {b:3}, its only base sets {a:1, b:2} and has no base
AnnotationScenario ==
    /\ BasesOf(DocRaw(root)) = <<NameP>>
    /\ BasesOf(DocRaw(NameP)) = <<>>
    /\ HashMapOf(DocRaw(root).annotations) = (KeyB :> Val3)
    /\ HashMapOf(DocRaw(NameP).annotations) = (KeyA :> Val1) @@ (KeyB :> Val2)

C4_MapsUnionRightBiased ==
    /\ mpc = "done" => MapsMerged([self |-> mself, other |-> mother, out |-> mout])
    /\ IsSome(hist.lastMerge) => MapsMerged(Unwrap(hist.lastMerge))
    /\ RenderOk /\ AnnotationScenario => TheEDF.annotations = (KeyA :> Val1) @@ (KeyB :> Val3)

C4_Witness == RenderOk /\ AnnotationScenario /\ DOMAIN TheEDF.annotations = {KeyA, KeyB}

(***************************************************************************)
(* C5.  For devices and mounts, extend yields self's list followed by      *)
(* other's, nothing dropped or reordered; the raw mount strings of a       *)
(* resolved document are those of its bases in base-list order followed by *)
(* its own; every mount declared in the chain is in the rendered mounts    *)
(* (compiled) and every device in the rendered devices (expanded once per  *)
(* level it passed).                                                       *)
(***************************************************************************)
ListsConcatenated(m) ==
    \A f \in ListFields :
        /\ ListOf(m.out[f]) = ListOf(m.self[f]) \o ListOf(m.other[f])
        /\ IsSome(m.out[f]) <=> (IsSome(m.self[f]) \/ IsSome(m.other[f]))

\* the raw mount strings of the chain below a call, in precedence order
ChainMounts(name, depth) ==
    LET lin == Lin(name, depth) IN Flatten([i \in 1..Len(lin) |-> ListOf(lin[i].raw.mounts)])

C5_ListsConcatenate ==
    /\ mpc = "done" => ListsConcatenated([self |-> mself, other |-> mother, out |-> mout])
    /\ IsSome(hist.lastMerge) => ListsConcatenated(Unwrap(hist.lastMerge))
    /\ \A i \in 1..Len(stack) :
        stack[i].pc = "ret" /\ Unwrap(stack[i].ret).ok =>
            ListOf(Unwrap(stack[i].ret).v.mounts) = ChainMounts(stack[i].name, i)
    /\ RenderOk =>
        LET lin == Lin(root, 1) IN
        \A i \in 1..Len(lin) :
            /\ \A m \in Range(ListOf(lin[i].raw.mounts)) : try_new(m, cwd, files).v \in Range(TheEDF.mounts)
            /\ \A d \in Range(ListOf(lin[i].raw.devices)) : ExpandN(d, lin[i].depth) \in Range(TheEDF.devices)

\* two bases and the root all declare mounts and devices
C5_Witness ==
    /\ RenderOk
    /\ Len(BasesOf(DocRaw(root))) = 2
    /\ \A i \in 1..Len(Lin(root, 1)) :
        Lin(root, 1)[i].raw.mounts /= None /\ ListOf(Lin(root, 1)[i].raw.devices) /= <<>>
    /\ Len(ListOf(Resolved.mounts)) >= 6

(***************************************************************************)
(* C6.  In the document resolve returns, each scalar field and each map    *)
(* key has the value set by the highest-precedence document that sets it:  *)
(* a document outranks its bases, a later base an earlier one, and so on   *)
(* down the chain (string values as expanded on the way up).               *)
(***************************************************************************)
\* the last document of lin for which sets(raw) holds, 0 if none
LastSetting(lin, sets(_)) ==
    LET is == {i \in 1..Len(lin) : sets(lin[i].raw)} IN
    IF is = {} THEN 0 ELSE CHOOSE i \in is : \A j \in is : j <= i

PrecedenceHolds(doc, lin, scalars) ==
    /\ \A f \in scalars :
        LET w == LastSetting(lin, LAMBDA raw : IsSome(raw[f])) IN
        IF w = 0 THEN IsNone(doc[f])
        ELSE doc[f] = Some(IF f \in ExpandedScalars
                           THEN ExpandN(Unwrap(lin[w].raw[f]), lin[w].depth)
                           ELSE Unwrap(lin[w].raw[f]))
    /\ DOMAIN EnvOf(doc.env) = UNION {DOMAIN EnvOf(lin[i].raw.env) : i \in 1..Len(lin)}
    /\ \A k \in DOMAIN EnvOf(doc.env) :
        LET w == LastSetting(lin, LAMBDA raw : k \in DOMAIN EnvOf(raw.env)) IN
        EnvOf(doc.env)[k] = ExpandN(EnvOf(lin[w].raw.env)[k], lin[w].depth)
    /\ DOMAIN HashMapOf(doc.annotations) = UNION {DOMAIN HashMapOf(lin[i].raw.annotations) : i \in 1..Len(lin)}
    /\ \A k \in DOMAIN HashMapOf(doc.annotations) :
        LET w == LastSetting(lin, LAMBDA raw : k \in DOMAIN HashMapOf(raw.annotations)) IN
        HashMapOf(doc.annotations)[k] = ExpandN(HashMapOf(lin[w].raw.annotations)[k], lin[w].depth)

C6_PrecedenceOverChain ==
    IsSome(hist.resolved) /\ Unwrap(hist.resolved).ok => PrecedenceHolds(Resolved, Lin(root, 1), ScalarFields)

(***************************************************************************)
(* C7.  The devices of every EDF render returns hold no string twice and,  *)
(* as a set, are the device strings declared by the root and the           *)
(* documents of its chain, expanded (once per level they passed).          *)
(***************************************************************************)
ExpandedDevices ==
    LET lin == Lin(root, 1) IN
    UNION {{ExpandN(d, lin[i].depth) : d \in Range(ListOf(lin[i].raw.devices))} : i \in 1..Len(lin)}

DeclaredDeviceCount ==
    LET lin == Lin(root, 1) IN Len(Flatten([i \in 1..Len(lin) |-> ListOf(lin[i].raw.devices)]))

C7_DevicesUnique ==
    RenderOk => NoDup(TheEDF.devices) /\ Range(TheEDF.devices) = ExpandedDevices

\* more devices were declared than distinct ones came out, in a chain with a base
C7_Witness ==
    /\ RenderOk
    /\ Len(Lin(root, 1)) >= 2
    /\ Len(TheEDF.devices) >= 2
    /\ DeclaredDeviceCount > Len(TheEDF.devices)

(***************************************************************************)
(* C8.  The mounts of every EDF render returns hold no record twice; the   *)
(* first occurrence of each (source, target, flags) is kept, in first-seen *)
(* order, and records that differ in one field are all kept.               *)
(***************************************************************************)
CompiledMounts ==
    LET raw == ListOf(Resolved.mounts) IN [i \in 1..Len(raw) |-> try_new(raw[i], cwd, files).v]

C8_MountsUnique ==
    RenderOk =>
        /\ NoDup(TheEDF.mounts)
        /\ TheEDF.mounts = FirstSeenValues(CompiledMounts)
        /\ \A i \in 1..Len(CompiledMounts) : CompiledMounts[i] \in Range(TheEDF.mounts)

\* a repeated record was dropped and two records differing only in flags were kept
C8_Witness ==
    /\ RenderOk
    /\ Len(CompiledMounts) > Len(TheEDF.mounts)
    /\ \E i, j \in 1..Len(TheEDF.mounts) :
        /\ TheEDF.mounts[i].source = TheEDF.mounts[j].source
        /\ TheEDF.mounts[i].target = TheEDF.mounts[j].target
        /\ TheEDF.mounts[i].flags /= TheEDF.mounts[j].flags

(***************************************************************************)
(* C9.  Every EDF render returns has an image that is present and not      *)
(* empty; when the resolved document sets no image, finalizing fails with  *)
(* MissingImage (code 7).                                                  *)
(***************************************************************************)
C9_ImagePresentNonEmpty ==
    /\ RenderOk => IsSome(Resolved.image) /\ TheEDF.image /= <<>>
    /\ IsSome(hist.resolved) /\ Unwrap(hist.resolved).ok /\ IsNone(Resolved.image) => RenderErr(7)

(***************************************************************************)
(* C10.  image is required only of the resolved result: a base that sets   *)
(* no image does not make render fail or abort, and render succeeds with   *)
(* the image of the child or of another base.                              *)
(***************************************************************************)
\* some document of the chain sets an image and nothing else goes wrong
ImageSuppliedSomewhere ==
    LET lin == Lin(root, 1) IN
    /\ \E i \in 1..Len(lin) : IsSome(lin[i].raw.image)
    /\ \E i \in 1..Len(lin) : IsNone(lin[i].raw.image)

C10_ImageOnlyOfResult ==
    /\ result.kind /= "panic"
    /\ RenderOk /\ ImageSuppliedSomewhere =>
        LET lin == Lin(root, 1) IN
        TheEDF.image = Unwrap(lin[LastSetting(lin, LAMBDA raw : IsSome(raw.image))].raw.image)

(***************************************************************************)
(* C11.  For a valid document with no base_environment, resolve returns    *)
(* that document with the fields expanded and nothing else changed, and    *)
(* the EDF is that document with the defaults in exactly the unset fields: *)
(* entrypoint, writable and parallax_enable true, perfmon false, empty     *)
(* lists and maps, the default tool paths.                                 *)
(***************************************************************************)
ExpandedOnly(doc, raw) ==
    /\ \A f \in BoolFields \cup {"image", "mounts", "base_environment"} : doc[f] = raw[f]
    /\ \A f \in StringFields \ {"image"} :
        doc[f] = IF IsSome(raw[f]) THEN Some(ExpandN(Unwrap(raw[f]), 1)) ELSE None
    /\ IsSome(doc.env) <=> IsSome(raw.env)
    /\ DOMAIN EnvOf(doc.env) = DOMAIN EnvOf(raw.env)
    /\ \A k \in DOMAIN EnvOf(raw.env) : EnvOf(doc.env)[k] = ExpandN(EnvOf(raw.env)[k], 1)
    /\ IsSome(doc.annotations) <=> IsSome(raw.annotations)
    /\ DOMAIN HashMapOf(doc.annotations) = DOMAIN HashMapOf(raw.annotations)
    /\ \A k \in DOMAIN HashMapOf(raw.annotations) :
        HashMapOf(doc.annotations)[k] = ExpandN(HashMapOf(raw.annotations)[k], 1)
    /\ IsSome(doc.devices) <=> IsSome(raw.devices)
    /\ NoDup(ListOf(doc.devices))
    /\ Range(ListOf(doc.devices)) = {ExpandN(d, 1) : d \in Range(ListOf(raw.devices))}

DefaultsApplied(edf, doc) ==
    LET Or(f, d) == IF IsSome(doc[f]) THEN Unwrap(doc[f]) ELSE d IN
    /\ DOMAIN edf = RawFields \ {"base_environment", "engine"}
    /\ edf.image = Unwrap(doc.image)
    /\ edf.entrypoint = Or("entrypoint", TRUE)
    /\ edf.writable = Or("writable", TRUE)
    /\ edf.parallax_enable = Or("parallax_enable", TRUE)
    /\ edf.perfmon = Or("perfmon", FALSE)
    /\ edf.workdir = Or("workdir", <<>>)
    /\ edf.parallax_imagestore = Or("parallax_imagestore", <<>>)
    /\ edf.parallax_mount_program = Or("parallax_mount_program", <<>>)
    /\ edf.parallax_path = Or("parallax_path", StrParallax)
    /\ edf.podman_module = Or("podman_module", StrHpc)
    /\ edf.podman_path = Or("podman_path", StrPodman)
    /\ edf.podman_tmp_path = Or("podman_tmp_path", StrDevShm)
    /\ edf.env = EnvOf(doc.env)
    /\ edf.annotations = HashMapOf(doc.annotations)
    /\ edf.devices = ListOf(doc.devices)
    /\ edf.mounts = FirstSeenValues(CompiledMounts)

RootResolved == IsSome(hist.resolved) /\ Unwrap(hist.resolved).ok

TopFailed == stack /= <<>> /\ Top.pc = "ret" /\ ~Unwrap(Top.ret).ok

ErrorMovesUp ==
    TopFailed =>
        /\ hist'.calls = hist.calls
        /\ IF Len(stack) = 1
           THEN stack' = <<>> /\ result' = Returned(Unwrap(Top.ret))
           ELSE /\ Len(stack') = Len(stack) - 1
                /\ stack'[Len(stack')] = Fail(stack[Len(stack) - 1], Unwrap(Top.ret))
                /\ result' = Pending

C12_FirstErrorSurfacesVerbatim ==
    /\ [](\A i \in 1..(Len(stack) - 1) : stack[i].pc = "bases" /\ stack[i].ret = None)
    /\ [][ErrorMovesUp]_vars

\* the first base p of r fails schema validation at nesting depth 2; render
\* returns that error with p's path, and the second base q was never called
C12_Witness ==
    /\ RenderErr(4)
    /\ result.r.file_path = Some(Candidate(DirU, NameP))
    /\ BasesOf(files[Candidate(DirU, NameR)].raw) = <<NameP, NameQ>>
    /\ hist.calls = 2

(***************************************************************************)
(* C13.  A name that is not path-like resolves to "<entry>/<name>.toml"    *)
(* for the first entry of the search path list, in list order, at which    *)
(* that file is a regular file that can be opened; the list has the user   *)
(* entry (EDF_PATH, else $HOME/.edf) before all system entries, so a name  *)
(* present in the user directory and in a system directory resolves to the *)
(* user's file.  (As first stated, "exists as a regular file" without "can *)
(* be opened": C13_FirstRegularFileWins.)                                  *)
(***************************************************************************)
\* the name of a call after expansion
ExpandedName(fr) == expand_vars_string(fr.name, uenv, penv).v
\* the calls whose name has been resolved to a path
ResolvedFrames == {i \in 1..Len(stack) : stack[i].path /= <<>>}
\* the calls whose own name was not found
NotFoundFrames ==
    {i \in 1..Len(stack) : /\ stack[i].path = <<>> /\ stack[i].ret /= None
                           /\ ~Unwrap(stack[i].ret).ok /\ Unwrap(stack[i].ret).code = 6}

\* the user entry the process environment asks for, <<>> if none
UserEntry ==
    IF EdfPathVar \in DOMAIN penv THEN penv[EdfPathVar]
    ELSE IF HomeVar \in DOMAIN penv /\ penv[HomeVar] /= <<>> THEN penv[HomeVar] \o <<"/", ".", "e", "d", "f">>
    ELSE <<>>

\* lookup picks the first entry that Usable accepts
LookupOrder(Usable(_)) ==
    /\ \A i \in ResolvedFrames :
        LET ee == ExpandedName(stack[i]) IN
        LooksLikeName(ee) =>
            \E k \in 1..Len(sp) :
                /\ stack[i].path = Candidate(sp[k], ee)
                /\ Usable(Candidate(sp[k], ee))
                /\ \A j \in 1..(k - 1) : ~Usable(Candidate(sp[j], ee))
    /\ \A i \in NotFoundFrames :
        LET ee == ExpandedName(stack[i]) IN
        LooksLikeName(ee) => \A k \in 1..Len(sp) : ~Usable(Candidate(sp[k], ee))
    /\ hist.started /\ UserEntry /= <<>> => sp /= <<>> /\ sp[1] = UserEntry
    /\ \A i \in ResolvedFrames :
        LET ee == ExpandedName(stack[i]) IN
        LooksLikeName(ee) /\ UserEntry /= <<>> /\ Usable(Candidate(UserEntry, ee)) =>
            stack[i].path = Candidate(UserEntry, ee)

C13_FirstRegularFileWins == LookupOrder(LAMBDA path : IsFile(files, path))

C13_FirstOpenableFileWins == LookupOrder(LAMBDA path : IsFile(files, path) /\ CanOpen(files, path))

\* p is in the user directory $HOME/.edf and in both system directories,
\* and the call for p has the user's file
C13_Witness ==
    /\ Len(sp) = 3 /\ sp[1] = DirH \o DotEdf
    /\ \E i \in ResolvedFrames :
        /\ stack[i].name = NameP
        /\ stack[i].path = Candidate(sp[1], NameP)
        /\ IsFile(files, Candidate(sp[2], NameP)) /\ IsFile(files, Candidate(sp[3], NameP))

(***************************************************************************)
(* C14.  A name that starts with "." or "/" or ends in ".toml" is used     *)
(* literally and never looked up in the search paths; when there is no     *)
(* candidate (the literal path is no regular file, or no entry holds       *)
(* <name>.toml) the call fails with NotFound (code 6), the message names   *)
(* every path that was probed, and no document is loaded.                  *)
(***************************************************************************)
PathLike(ee) == StartsWith(ee, <<".">>) \/ StartsWith(ee, <<"/">>) \/ EndsWith(ee, <<".", "t", "o", "m", "l">>)

\* the paths resolve_env_path tests for the expanded name ee
ProbedPaths(ee) == IF PathLike(ee) THEN {ee} ELSE {sp[k] \o <<"/">> \o ee \o <<".", "t", "o", "m", "l">> : k \in 1..Len(sp)}

\* the paths a NotFound message names: the quoted name, and the name under
\* each of the listed directories
ListedPaths(msg) ==
    {msg.name} \cup (IF msg.paths = <<>> THEN {}
                     ELSE {d \o <<"/">> \o msg.name \o <<".", "t", "o", "m", "l">> : d \in Range(Split(msg.paths, ","))})

C14_LiteralPathsAndNotFound ==
    /\ \A i \in ResolvedFrames :
        PathLike(ExpandedName(stack[i])) =>
            /\ stack[i].path = ExpandedName(stack[i])
            /\ IsFile(files, stack[i].path)
    /\ \A i \in NotFoundFrames :
        LET ee == ExpandedName(stack[i])
            e == Unwrap(stack[i].ret)
        IN  /\ \A path \in ProbedPaths(ee) : ~(IsFile(files, path) /\ CanOpen(files, path))
            /\ e.file_path = None
            /\ ProbedPaths(ee) \subseteq ListedPaths(e.msg)
            /\ stack[i].cur = RawEDF_default
    /\ \A i \in 1..Len(stack) :
        LET e == expand_vars_string(stack[i].name, uenv, penv) IN
        /\ stack[i].pc \notin {"depth", "resolve"} /\ stack[i].count <= 10 /\ e.ok
        /\ \A path \in ProbedPaths(e.v) : ~(IsFile(files, path) /\ CanOpen(files, path))
        => i \in NotFoundFrames
    /\ RenderErr(6) /\ hist.calls = 1 => result.r.msg.name = ExpandedName([name |-> root])

\* render of "x.toml", which is no file: NotFound after one call, although
\* the search paths are not empty
C14_Witness ==
    /\ RenderErr(6) /\ root = <<"x", ".", "t", "o", "m", "l">>
    /\ hist.calls = 1 /\ Len(sp) >= 2
    /\ result.r.msg.paths /= <<>>

(***************************************************************************)
(* C15.  Every document of a render, the root and each base at any depth,  *)
(* is validated against the schema before it is parsed into a raw document *)
(* or merged; a document with n >= 1 violations gives one SchemaInvalid    *)
(* error (code 4) with the document's path that reports all n violations,  *)
(* and render does not succeed when a document of the chain has one.       *)
(***************************************************************************)
\* the paths of the documents of the chain of a name
RECURSIVE ChainPaths(_, _)
ChainPaths(name, depth) ==
    IF depth > MaxLevels THEN {}
    ELSE LET path == resolve_env_path(files, name, sp, uenv, penv).v
             bs == BasesOf(files[path].raw)
         IN  {path} \cup UNION {ChainPaths(bs[i], depth + 1) : i \in 1..Len(bs)}

\* the call has parsed its document
Parsed(fr) == fr.pc \in {"bases", "expand"} \/ (fr.pc = "ret" /\ fr.path /= <<>> /\ fr.cur /= RawEDF_default)

C15_ValidatedBeforeParsed ==
    /\ \A i \in 1..Len(stack) :
        /\ stack[i].pc = "load" \/ Parsed(stack[i]) =>
            files[stack[i].path].toml_ok /\ files[stack[i].path].violations = <<>>
        /\ stack[i].cur /= RawEDF_default => files[stack[i].path].violations = <<>>
        /\ /\ stack[i].path /= <<>> /\ stack[i].pc /= "validate"
           /\ IsFile(files, stack[i].path) /\ CanOpen(files, stack[i].path) /\ files[stack[i].path].toml_ok
           /\ files[stack[i].path].violations /= <<>>
           => /\ stack[i].pc = "ret"
              /\ stack[i].ret = Some(Err(4, Some(stack[i].path), files[stack[i].path].violations))
              /\ stack[i].cur = RawEDF_default
    /\ RenderOk => \A path \in ChainPaths(root, 1) : files[path].violations = <<>>
    /\ RenderErr(4) => /\ IsSome(result.r.file_path)
                       /\ result.r.msg = files[Unwrap(result.r.file_path)].violations
                       /\ result.r.msg /= <<>>

\* the base p of r has two violations: render fails with code 4, p's path
\* and both violations, after the calls for r and p
C15_Witness ==
    /\ RenderErr(4)
    /\ Len(result.r.msg) = 2
    /\ \E d \in Range(sp) : result.r.file_path = Some(Candidate(d, NameP))
    /\ hist.calls = 2 /\ hist.lastMerge = None

(***************************************************************************)
(* The expander with an explicit environment (Mode B)                      *)
(***************************************************************************)
\* a call of expand(text, Some(env)) has returned out
ModeBDone == xpc = "done" /\ xin.fn = "expand" /\ IsSome(xin.env)
Out == Unwrap(xout)

\* position p of s starts "$(", or holds a backquote, a semicolon or a double quote
TokenAt(s, p) ==
    \/ s[p] = Backquote \/ s[p] = ";" \/ s[p] = "\""
    \/ p + 1 <= Len(s) /\ SubSeq(s, p, p + 1) = <<"$", "(">>
TokenPositions(s) == {p \in 1..Len(s) : TokenAt(s, p)}
PrecededByBackslash(s, p) == p > 1 /\ s[p - 1] = "\\"
PassesScan(s) == \A p \in TokenPositions(s) : PrecededByBackslash(s, p)
IsBannedError(r) == ~r.ok /\ r.code = 18 /\ r.msg = InvalidString

\* C16: in Mode B the call fails with the banned-pattern error (code 18, the
\* "invalid string" error, returned whether or not a shell could be started)
\* exactly when the text has "$(", a backquote, a semicolon or a double quote
\* at its start or not right after a backslash; a text whose every token is
\* right after a backslash passes the scan.
C16_DenylistExactlyUnescapedTokens ==
    ModeBDone => (IsBannedError(Out) <=> ~PassesScan(xin.text))

\* a text with an escaped token and then an unescaped one is rejected where
\* no shell can be started
C16_Witness ==
    /\ ModeBDone /\ bash = "absent" /\ IsBannedError(Out)
    /\ \E p, q \in TokenPositions(xin.text) :
        p < q /\ PrecededByBackslash(xin.text, p) /\ ~PrecededByBackslash(xin.text, q)

\* how the shell read the text of the call
Reading == BashDoubleQuoted(xin.text, Unwrap(xin.env))

\* C17: every text that passes the scan, whatever the number of backslashes
\* before its tokens, is read by the shell as data inside the double-quoted
\* echo template: no command substitution is started and the quoted string
\* is not ended early.
C17_ScannedTextIsData ==
    ModeBDone /\ bash = "present" /\ PassesScan(xin.text) => Reading.status /= "injected"

TextYYY == Dashed(<<"$", "{">> \o VarYYY \o <<"}">>)
TextYYYDefault == Dashed(<<"$", "{">> \o VarYYY \o <<":", "-", "2", "2", "2", "}">>)

\* C18: in Mode B a text that references a variable which is no key of the
\* explicit environment and has no default (such as "${YYY}") never yields
\* Ok; the same reference with a default ("${YYY:-222}") yields Ok with the
\* default in its place.
C18_UnsetVariableIsAnError ==
    ModeBDone /\ bash = "present" =>
        /\ Reading.status = "unset" => ~Out.ok
        /\ xin.text = TextYYYDefault => Out = Ok(Dashed(<<"2", "2", "2">>))

(***************************************************************************)
(* Error codes                                                             *)
(***************************************************************************)
\* the two calls in hand: 1 is the one before, 2 the one that has just returned
CallNo(i) == IF i = 1 THEN Unwrap(prev) ELSE [call |-> xin, bash |-> bash, out |-> Out]
HasReturned(i) == IF i = 1 THEN IsSome(prev) ELSE xpc = "done"
Failed == {i \in {1, 2} : HasReturned(i) /\ ~CallNo(i).out.ok}

\* the failure condition of a failed call, told from its arguments, from the
\* files and from whether a shell could be started
ExpandCondition(m) ==
    IF ~IsSome(m.call.env) THEN "UnsetVariable"
    ELSE IF ~PassesScan(m.call.text) THEN "BannedExpansionPattern"
    ELSE IF m.bash = "absent" THEN "SandboxSpawnFailure"
    ELSE "NonUtf8Output"
MountCondition(m) ==
    LET a == Split(m.call.input, ":")
        sqsh == Len(a) = 3 /\ a[3] = Sqsh
    IN  IF Len(a) \notin {2, 3} THEN "MalformedMountSpec"
        ELSE IF ~PathStartsWithDotOrSlash(a[1]) /\ (sqsh \/ a[1] \notin {Tmpfs, Umount}) THEN
            IF sqsh THEN "InvalidSquashfsSource" ELSE "InvalidMountSource"
        ELSE IF ~PathStartsWithDotOrSlash(a[2]) THEN "InvalidMountTarget"
        ELSE IF a[1] \notin DOMAIN files THEN "SquashfsSourceMissing"
        ELSE "SquashfsSourceNotRegular"
Condition(m) == IF m.call.fn = "expand" THEN ExpandCondition(m) ELSE MountCondition(m)

\* C19: two failed calls with different failure conditions return
\* different codes (among them: banned pattern, spawn failure and non-UTF-8
\* output of the expander; squashfs source missing and squashfs source not
\* a regular file of the mount compiler), and two with the same condition
\* return the same code.
C19_CodesPerCondition ==
    \A i, j \in Failed :
        (Condition(CallNo(i)) = Condition(CallNo(j))) <=> (CallNo(i).out.code = CallNo(j).out.code)

\* both calls in hand are Mode B calls with the same text and the same
\* explicit environment, made with a shell at hand
SameTextAndEnv ==
    /\ HasReturned(1) /\ HasReturned(2)
    /\ \A i \in {1, 2} :
        CallNo(i).call.fn = "expand" /\ IsSome(CallNo(i).call.env) /\ CallNo(i).bash = "present"
    /\ CallNo(1).call.text = CallNo(2).call.text
    /\ CallNo(1).call.env = CallNo(2).call.env

\* C20: in Mode B the result is a function of the text and the explicit
\* environment only: two calls with the same text and the same explicit
\* environment return the same result, whatever the process environments
\* (so a variable of the process environment that is no key of the
\* explicit one is as good as unset).
C20_FunctionOfTextAndEnv ==
    SameTextAndEnv => CallNo(1).out = CallNo(2).out

(***************************************************************************)
(* The mount compiler                                                      *)
(***************************************************************************)
\* a call of try_new has returned; the fields of its argument
MountDone == xpc = "done" /\ xin.fn = "try_new"
Fields == Split(xin.input, ":")
SrcField == Fields[1]
TgtField == Fields[2]
FlagField == IF Len(Fields) = 3 THEN Fields[3] ELSE <<>>
WellFormed == Len(Fields) \in {2, 3}
StartsWithDotOrSlash(s) == s /= <<>> /\ s[1] \in {".", "/"}
IsPrefix(p, s) == Len(p) <= Len(s) /\ SubSeq(s, 1, Len(p)) = p
\* the flags of m begin with the default flag df
HasDefault(m, df) == m.flags = df \/ IsPrefix(df \o <<",">>, m.flags)
OkMount == Out.ok /\ Out.v.source = escape_mount(SrcField) /\ Out.v.target = escape_mount(TgtField)
ErrCode(c) == ~Out.ok /\ Out.code = c

\* C21: of a spec whose flags are not "sqsh": fewer than 2 or more than 3
\* fields yield error 8; a source starting with "." or "/" yields a bind
\* mount with default flag x-create=auto,rbind, the source tmpfs one with
\* x-create=dir, the source umount one with x-detach (the target being
\* valid); every other source yields error 12.
C21_SourceClassification ==
    MountDone =>
        /\ ~WellFormed => ErrCode(8)
        /\ WellFormed /\ FlagField /= Sqsh =>
            IF StartsWithDotOrSlash(SrcField)
            THEN PathStartsWithDotOrSlash(TgtField) => OkMount /\ HasDefault(Out.v, BindFlags)
            ELSE IF SrcField = Tmpfs
            THEN PathStartsWithDotOrSlash(TgtField) => OkMount /\ HasDefault(Out.v, TmpfsFlags)
            ELSE IF SrcField = Umount
            THEN PathStartsWithDotOrSlash(TgtField) => OkMount /\ HasDefault(Out.v, UmountFlags)
            ELSE ErrCode(12)

\* the expansion of a field of the spec under the caller's environment
Expanded(field) == expand_vars_string(escape_mount(field), xin.env, penv)
\* the source field, made absolute when it is the relative source of a squashfs image
SrcPath ==
    IF FlagField = Sqsh /\ PathStartsWithCurDir(SrcField) /\ IsSome(PathAbsolute(SrcField, cwd))
    THEN Unwrap(PathAbsolute(SrcField, cwd)) ELSE SrcField

\* C22: the mount compiler expands source, target and flags and validates
\* again: every Mount returned holds the expanded source and the expanded
\* target, and both start with "." or "/"; when the expanded source or
\* target does not, no Mount is returned.
C22_ExpandedAndRevalidated ==
    MountDone /\ Out.ok =>
        /\ Expanded(SrcPath).ok /\ Out.v.source = Expanded(SrcPath).v
        /\ Expanded(TgtField).ok /\ Out.v.target = Expanded(TgtField).v
        /\ StartsWithDotOrSlash(Out.v.source) /\ StartsWithDotOrSlash(Out.v.target)

\* the comma-separated entries of a flags string
Entries(f) == IF f = <<>> THEN <<>> ELSE Split(f, ",")
DefaultFlag(src) ==
    IF src = Tmpfs THEN TmpfsFlags ELSE IF src = Umount THEN UmountFlags ELSE BindFlags

\* C23: the flags of a mount that is no squashfs image are the entries of
\* the default flag and of the user's flags joined by commas, none of them
\* twice and each of them once; without user flags they are the default
\* flag itself.
C23_FlagsWithoutDuplicates ==
    MountDone /\ Out.ok /\ FlagField /= Sqsh =>
        /\ NoDup(Entries(Out.v.flags))
        /\ Range(Entries(Out.v.flags)) = Range(Entries(DefaultFlag(SrcField))) \cup Range(Entries(FlagField))
        /\ FlagField = <<>> => Out.v.flags = DefaultFlag(SrcField)

\* the checks before the look at the file have passed
SqshChecksPassed ==
    /\ PathStartsWithDotOrSlash(SrcField) /\ PathStartsWithDotOrSlash(TgtField)
    /\ PathStartsWithCurDir(SrcField) => IsSome(PathAbsolute(SrcField, cwd))
RegularFile(path) == path \in DOMAIN files /\ files[path].kind = "file"

ConfigDone == xpc = "done" /\ xin.fn = "update_config_by_user"
Given(f) == ConfigKey(f) \in DOMAIN xin.edf.annotations
ValueOf(f) == xin.edf.annotations[ConfigKey(f)]

\* C25: after update_config_by_user every string field whose annotation
\* com.sarus.<field> is in the EDF holds the annotation's value, every
\* boolean field whose annotation is "true" or "false" holds that boolean;
\* a field without its annotation, a boolean field with any other value
\* and edf_system_search_path in every case are as before, and so are the
\* system search paths.
C25_OverrideByAnnotations ==
    ConfigDone =>
        /\ \A f \in ConfigStringFields : Out[f] = IF Given(f) THEN ValueOf(f) ELSE xin.config[f]
        /\ \A f \in ConfigBoolFields :
            Out[f] = IF Given(f) /\ ValueOf(f) \in {StrTrue, StrFalse} THEN ValueOf(f) = StrTrue
                     ELSE xin.config[f]
        /\ Out.edf_system_search_path = xin.config.edf_system_search_path
        /\ get_sys_search_paths(Out.edf_system_search_path)
            = get_sys_search_paths(xin.config.edf_system_search_path)

\* an EDF that names a search path and gives a boolean field a value that is
\* no boolean: neither field has changed
C25_Witness ==
    /\ ConfigDone /\ Given("edf_system_search_path") /\ Given("perfmon")
    /\ ValueOf("perfmon") = <<"v">> /\ ValueOf("edf_system_search_path") /= xin.config.edf_system_search_path
    /\ Out = xin.config

(***************************************************************************)
(* The stages of a call and its depth                                      *)
(***************************************************************************)
Findable(name) == resolve_env_path(files, name, sp, uenv, penv).ok

\* C26: a call goes through its stages in the order ResolveName,
\* DepthCheck, SchemaValidate, Load, ResolveBases, Merge, ExpandFields and
\* ends at the first that fails: the name being resolved before the depth
\* is checked, a call for a name that cannot be found returns NotFound
\* (code 6), also when the call is beyond the depth limit.
C26_NotFoundBeforeTooDeep ==
    \A i \in 1..Len(stack) :
        stack[i].pc = "ret" /\ ~Findable(stack[i].name) =>
            ~Unwrap(stack[i].ret).ok /\ Unwrap(stack[i].ret).code = 6

\* C27: the count a call checks is one plus the number of its ancestors,
\* however many bases were resolved before it; TooDeep is reported only
\* where the nesting is deeper than 10, so a tree of more than 10 documents
\* nested no deeper than 10 is resolved without it.
C27_CountIsNestingDepth ==
    /\ \A i \in 1..Len(stack) : stack[i].count = IF stack[i].pc = "depth" THEN i - 1 ELSE i
    /\ hist.maxCount <= MaxLevels => ~hist.tooDeep /\ ~RenderErr(5)

\* w and its bases, more than 10 documents nested 2 deep, are resolved
C27_Witness ==
    /\ root = NameW /\ RenderOk /\ hist.calls = MaxChain + 1 /\ hist.calls > MaxLevels
    /\ hist.maxCount = 2 /\ ~hist.tooDeep

(***************************************************************************)
(* The expansion of the fields                                             *)
(***************************************************************************)
\* one pass of the expander over s under the explicit environment
Once(s) == expand_vars_string(s, uenv, penv)

\* the strings of a merged document the expander has to go over
Strings(doc) ==
    {Unwrap(doc[f]) : f \in {g \in StringFields : IsSome(doc[g])}}
    \cup Range(ListOf(doc.devices))
    \cup {EnvOf(doc.env)[k] : k \in DOMAIN EnvOf(doc.env)}
    \cup {HashMapOf(doc.annotations)[k] : k \in DOMAIN HashMapOf(doc.annotations)}

\* r is what ExpandFields has to return for the merged document doc
ExpandsEveryString(doc, r) ==
    /\ (\E s \in Strings(doc) : ~Once(s).ok) => ~r.ok
    /\ r.ok =>
        /\ \A f \in StringFields : r.v[f] = IF IsSome(doc[f]) THEN Some(Once(Unwrap(doc[f])).v) ELSE None
        /\ \A f \in BoolFields : r.v[f] = doc[f]
        /\ DOMAIN EnvOf(r.v.env) = DOMAIN EnvOf(doc.env)
        /\ \A k \in DOMAIN EnvOf(doc.env) : EnvOf(r.v.env)[k] = Once(EnvOf(doc.env)[k]).v
        /\ DOMAIN HashMapOf(r.v.annotations) = DOMAIN HashMapOf(doc.annotations)
        /\ \A k \in DOMAIN HashMapOf(doc.annotations) :
            HashMapOf(r.v.annotations)[k] = Once(HashMapOf(doc.annotations)[k]).v
        /\ Range(ListOf(r.v.devices)) = {Once(d).v : d \in Range(ListOf(doc.devices))}

\* the step of a call from its merged document to what it returns
ExpandFieldsStep ==
    /\ stack /= <<>> /\ Top.pc = "expand"
    /\ Len(stack') = Len(stack) /\ stack'[Len(stack)].pc = "ret"

\* C28: ExpandFields covers every string field: in what a call returns,
\* every string scalar that is set (image and engine among them), every
\* value of env and annotations and every device is the expansion of the
\* merged value; keys and booleans are as merged; when the expansion of one
\* of them fails, the call fails.
C28_EveryStringExpanded ==
    [][ExpandFieldsStep => ExpandsEveryString(Top.cur, Unwrap(stack'[Len(stack)].ret))]_vars

\* the value of the highest-precedence document of lin that gives one,
\* after as many passes of the expander as that document is deep
PassedPerLevel(lin, get(_), has(_)) ==
    LET w == LastSetting(lin, has) IN ExpandN(get(lin[w].raw), lin[w].depth)

\* C29: what is inherited is expanded again at every enclosing level: in
\* the resolved document a string field, a map value or a device authored
\* at nesting depth d has passed through the expander d times; the mount
\* strings are passed on as authored and compiled once, at the end.
C29_ExpandedOncePerLevel ==
    RootResolved =>
        LET lin == Lin(root, 1) IN
        /\ \A f \in StringFields :
            IsSome(Resolved[f]) =>
                Unwrap(Resolved[f])
                    = PassedPerLevel(lin, LAMBDA raw : Unwrap(raw[f]), LAMBDA raw : IsSome(raw[f]))
        /\ \A k \in DOMAIN EnvOf(Resolved.env) :
            EnvOf(Resolved.env)[k]
                = PassedPerLevel(lin, LAMBDA raw : EnvOf(raw.env)[k], LAMBDA raw : k \in DOMAIN EnvOf(raw.env))
        /\ \A k \in DOMAIN HashMapOf(Resolved.annotations) :
            HashMapOf(Resolved.annotations)[k]
                = PassedPerLevel(lin, LAMBDA raw : HashMapOf(raw.annotations)[k],
                                 LAMBDA raw : k \in DOMAIN HashMapOf(raw.annotations))
        /\ Range(ListOf(Resolved.devices)) = ExpandedDevices
        /\ ListOf(Resolved.mounts) = ChainMounts(root, 1)
        /\ RenderOk /\ IsSome(Resolved.mounts) =>
            TheEDF.mounts = sarus_mounts_from_strings(ChainMounts(root, 1), cwd, files).v
====
